---- MODULE Spec2Model ----
(***************************************************************************)
(* Turn resolution engine of the roguelike: world grid, player, NPCs,      *)
(* items, the bounded message log, the resolver operations of GameState    *)
(* and the win/loss conditions.                                            *)
(*                                                                         *)
(* Every random draw of the code (rand::thread_rng) is a nondeterministic  *)
(* choice over the whole range the code draws from.                        *)
(***************************************************************************)
EXTENDS Integers, Sequences, FiniteSets, TLC

(***************************************************************************)
(* Bounds of the model.  The room is Width x Height tiles instead of the   *)
(* 50 x 30 of GameWorld::default; MaxSteps caps the number of operations   *)
(* applied to one game; MaxAppends caps the appends of the log-only        *)
(* specification; MaxKeys caps the keys pressed within one frame.          *)
(***************************************************************************)
Width == 8
Height == 5
MaxSteps == 1
MaxAppends == 60
MaxKeys == 2

(***************************************************************************)
(* Program constants.                                                      *)
(***************************************************************************)
MaxLogMessages == 50
DefaultHealth == 100
MinOrcDamage == 5
MaxOrcDamage == 20
FloorModulus == 7

VARIABLES
    player,        \* GameState.player : position, health, max_health, inventory
    world,         \* GameState.world  : size, tiles, items
    npcs,          \* GameState.npcs   : sequence of NPC records
    log_messages,  \* GameState.log_messages
    condition,     \* the active win/loss condition (game mode)
    last,          \* the last operation applied, its arguments and its result
    appended,      \* every message ever handed to add_log_message, in order
    steps,         \* number of operations applied so far
    dialog_state   \* RoguelikeApp.dialog_state

vars == <<player, world, npcs, log_messages, condition, last, appended, steps,
         dialog_state>>

(***************************************************************************)
(* Items (item.rs).                                                        *)
(***************************************************************************)
ItemTypes == {"Key", "TreasureChest", "Treasure", "Gem", "Scroll", "Potion"}

Item(item_type, label) == [item_type |-> item_type, label |-> label]

WorldItem(x, y, item) == [position |-> <<x, y>>, item |-> item]

NPC(x, y, npc_type, name) == [position |-> <<x, y>>, npc_type |-> npc_type, name |-> name]

NPCTypes == {"Goblin", "Orc", "Skeleton", "Merchant", "Guard"}

(***************************************************************************)
(* Sequence helpers: Vec::remove(i) and Iterator::position, 1-based.       *)
(***************************************************************************)
RemoveAt(seq, i) == [k \in 1..(Len(seq) - 1) |-> IF k < i THEN seq[k] ELSE seq[k + 1]]

\* index of the first element satisfying P, 0 when there is none
FirstIndex(seq, P(_)) ==
    IF \E i \in 1..Len(seq) : P(seq[i])
    THEN CHOOSE i \in 1..Len(seq) : P(seq[i]) /\ \A j \in 1..(i - 1) : ~P(seq[j])
    ELSE 0

(***************************************************************************)
(* GameWorld (state.rs).  tiles[x][y], 0-based as in the code.             *)
(***************************************************************************)
TileTypes == {"Floor", "Wall", "Door", "Stairs", "Empty"}

\* mutant: the east wall is looked for one column too far
generate_simple_room_open_east(w, h) ==
    [x \in 0..(w - 1) |->
        [y \in 0..(h - 1) |->
            IF x = 0 \/ x = w \/ y = 0 \/ y = h - 1 THEN "Wall"
            ELSE IF (x + y) % FloorModulus = 0 THEN "Floor"
            ELSE "Empty"]]

generate_simple_room(w, h) ==
    [x \in 0..(w - 1) |->
        [y \in 0..(h - 1) |->
            IF x = 0 \/ x = w - 1 \/ y = 0 \/ y = h - 1 THEN "Wall"
            ELSE IF (x + y) % FloorModulus = 0 THEN "Floor"
            ELSE "Empty"]]

GameWorld_new(w, h) ==
    [size |-> <<w, h>>, tiles |-> generate_simple_room(w, h), items |-> <<>>]

\* generate_simple_room called on a world that exists: every tile is written anew
regenerate(world_) ==
    [world_ EXCEPT !.tiles = generate_simple_room(world_.size[1], world_.size[2])]

DefaultWidth == 50
DefaultHeight == 30

\* GameWorld::default has a loop of its own
GameWorld_default ==
    [size |-> <<DefaultWidth, DefaultHeight>>,
     tiles |-> [x \in 0..(DefaultWidth - 1) |->
                  [y \in 0..(DefaultHeight - 1) |->
                      IF \/ x = 0 \/ x = DefaultWidth - 1
                         \/ y = 0 \/ y = DefaultHeight - 1 THEN "Wall"
                      ELSE IF (x + y) % FloorModulus = 0 THEN "Floor"
                      ELSE "Empty"]],
     items |-> << >>]

is_valid_position(w, x, y) ==
    x >= 0 /\ y >= 0 /\ x < w.size[1] /\ y < w.size[2]

\* "None" stands for Option::None
get_tile(w, x, y) ==
    IF x >= 0 /\ y >= 0 /\ x < w.size[1] /\ y < w.size[2]
    THEN w.tiles[x][y]
    ELSE "None"

\* mutant: stairs are walked on as well
is_walkable_stairs(w, x, y) == get_tile(w, x, y) \in {"Floor", "Door", "Stairs", "Empty"}

is_walkable(w, x, y) == get_tile(w, x, y) \in {"Floor", "Door", "Empty"}

(***************************************************************************)
(* Player (state.rs).                                                      *)
(***************************************************************************)
Max(a, b) == IF a >= b THEN a ELSE b
Min(a, b) == IF a <= b THEN a ELSE b

\* mutant: the subtraction is not clamped at 0
take_damage_unclamped(p, damage) == [p EXCEPT !.health = p.health - damage]

\* mutant: a blow on a dead player brings it back to full health
take_damage_revives(p, damage) ==
    [p EXCEPT !.health =
        IF @ - damage > 0 THEN @ - damage
        ELSE IF @ = 0 THEN p.max_health ELSE 0]

take_damage(p, damage) == [p EXCEPT !.health = Max(p.health - damage, 0)]

heal(p, amount) == [p EXCEPT !.health = Min(p.health + amount, p.max_health)]

is_alive(p) == p.health > 0

move_to(e, new_pos) == [e EXCEPT !.position = new_pos]

(***************************************************************************)
(* The message log (state.rs, GameState::add_log_message).                 *)
(***************************************************************************)
\* mutant: the newest message is dropped instead of the oldest
add_log_message_drops_newest(log, message) ==
    LET pushed == Append(log, message)
    IN  IF Len(pushed) > MaxLogMessages THEN SubSeq(pushed, 1, Len(pushed) - 1) ELSE pushed

add_log_message(log, message) ==
    LET pushed == Append(log, message)
    IN  IF Len(pushed) > MaxLogMessages THEN Tail(pushed) ELSE pushed

(***************************************************************************)
(* GameState (state.rs).  A game state s is the record                     *)
(*   [player, world, npcs, log_messages].                                  *)
(***************************************************************************)
GS == [player |-> player, world |-> world, npcs |-> npcs, log_messages |-> log_messages]

log(s, message) == [s EXCEPT !.log_messages = add_log_message(@, message)]

\* the InteractionResult variants
Nothing == [kind |-> "Nothing"]
ResultNPC(npc) == [kind |-> "NPC", npc |-> npc]
ResultItem(item) == [kind |-> "Item", item |-> item]

\* mutant: the skeleton leaves a pile of treasure instead of a key
interact_with_npc_skeleton_treasure(s, npc, damage) ==
    CASE npc.npc_type = "Skeleton" ->
            [state |-> log(s, "The skeleton collapses to a pile of bones"),
             result |-> ResultItem(Item("Treasure", "Pile of Treasure"))]
      [] npc.npc_type = "Orc" ->
            [state |-> log([s EXCEPT !.player = take_damage(@, damage)],
                           npc.name \o " attacks you for " \o ToString(damage) \o " damage!"),
             result |-> ResultNPC(npc)]
      [] npc.npc_type = "Goblin" ->
            [state |-> log(s, "Goblin cackles and tweaks your nose"),
             result |-> ResultNPC(npc)]
      [] OTHER ->
            [state |-> log(s, "You interact with " \o npc.name \o "."),
             result |-> ResultNPC(npc)]

\* damage is the draw of rand::thread_rng().gen_range(5..=20)
interact_with_npc(s, npc, damage) ==
    CASE npc.npc_type = "Skeleton" ->
            [state |-> log(s, "The skeleton collapses to a pile of bones"),
             result |-> ResultItem(Item("Key", "Bone Key"))]
      [] npc.npc_type = "Orc" ->
            [state |-> log([s EXCEPT !.player = take_damage(@, damage)],
                           npc.name \o " attacks you for " \o ToString(damage) \o " damage!"),
             result |-> ResultNPC(npc)]
      [] npc.npc_type = "Goblin" ->
            [state |-> log(s, "Goblin cackles and tweaks your nose"),
             result |-> ResultNPC(npc)]
      [] OTHER ->
            [state |-> log(s, "You interact with " \o npc.name \o "."),
             result |-> ResultNPC(npc)]

\* mutant: the NPC the interaction hands back is not put back
npc_collision_forgets_npc(s, new_pos, npc_index, damage) ==
    LET npc == s.npcs[npc_index]
        removed == [s EXCEPT !.npcs = RemoveAt(@, npc_index)]
        r == interact_with_npc(removed, npc, damage)
    IN  CASE r.result.kind = "Nothing" -> r.state
          [] r.result.kind = "NPC" -> r.state
          [] r.result.kind = "Item" ->
                [r.state EXCEPT !.world.items =
                    Append(@, WorldItem(new_pos[1], new_pos[2], r.result.item))]

\* the "Check for NPC collision" branch of try_move_player: the NPC at
\* npc_index stands on new_pos
npc_collision(s, new_pos, npc_index, damage) ==
    LET npc == s.npcs[npc_index]
        removed == [s EXCEPT !.npcs = RemoveAt(@, npc_index)]
        r == interact_with_npc(removed, npc, damage)
    IN  CASE r.result.kind = "Nothing" -> r.state
          [] r.result.kind = "NPC" ->
                [r.state EXCEPT !.npcs = Append(@, r.result.npc)]
          [] r.result.kind = "Item" ->
                [r.state EXCEPT !.world.items =
                    Append(@, WorldItem(new_pos[1], new_pos[2], r.result.item))]

\* mutant: the message gives the coordinates the wrong way round
step_to_swapped(s, new_pos) ==
    log([s EXCEPT !.player = move_to(@, new_pos)],
        "Moved to (" \o ToString(new_pos[2]) \o ", " \o ToString(new_pos[1]) \o ")")

\* the "Move player" branch of try_move_player
step_to(s, new_pos) ==
    log([s EXCEPT !.player = move_to(@, new_pos)],
        "Moved to (" \o ToString(new_pos[1]) \o ", " \o ToString(new_pos[2]) \o ")")

\* mutant: a collision is reported as a move
try_move_player_collision_succeeds(s, dx, dy, damage) ==
    LET new_pos == <<s.player.position[1] + dx, s.player.position[2] + dy>>
        npc_index == FirstIndex(s.npcs, LAMBDA npc : npc.position = new_pos)
    IN  IF \/ ~is_valid_position(s.world, new_pos[1], new_pos[2])
           \/ ~is_walkable(s.world, new_pos[1], new_pos[2])
        THEN [state |-> log(s, "Can't move there!"), ret |-> FALSE]
        ELSE IF npc_index # 0
        THEN [state |-> npc_collision(s, new_pos, npc_index, damage), ret |-> TRUE]
        ELSE [state |-> step_to(s, new_pos), ret |-> TRUE]

\* mutant: only the bounds are tested, not the tile
try_move_player_through_walls(s, dx, dy, damage) ==
    LET new_pos == <<s.player.position[1] + dx, s.player.position[2] + dy>>
        npc_index == FirstIndex(s.npcs, LAMBDA npc : npc.position = new_pos)
    IN  IF ~is_valid_position(s.world, new_pos[1], new_pos[2])
        THEN [state |-> log(s, "Can't move there!"), ret |-> FALSE]
        ELSE IF npc_index # 0
        THEN [state |-> npc_collision(s, new_pos, npc_index, damage), ret |-> FALSE]
        ELSE [state |-> step_to(s, new_pos), ret |-> TRUE]

try_move_player(s, dx, dy, damage) ==
    LET new_pos == <<s.player.position[1] + dx, s.player.position[2] + dy>>
        npc_index == FirstIndex(s.npcs, LAMBDA npc : npc.position = new_pos)
    IN  IF \/ ~is_valid_position(s.world, new_pos[1], new_pos[2])
           \/ ~is_walkable(s.world, new_pos[1], new_pos[2])
        THEN [state |-> log(s, "Can't move there!"), ret |-> FALSE]
        ELSE IF npc_index # 0
        THEN [state |-> npc_collision(s, new_pos, npc_index, damage), ret |-> FALSE]
        ELSE [state |-> step_to(s, new_pos), ret |-> TRUE]

\* mutant: the item is copied into the inventory and stays on the ground
try_pickup_item_leaves_item(s) ==
    LET player_pos == s.player.position
        item_index == FirstIndex(s.world.items, LAMBDA wi : wi.position = player_pos)
    IN  IF item_index # 0
        THEN LET world_item == s.world.items[item_index]
             IN  log([s EXCEPT !.player.inventory = Append(@, world_item.item)],
                     "You picked up " \o world_item.item.label \o ".")
        ELSE log(s, "There is nothing here to pick up.")

\* mutant: nothing is logged when there is nothing to pick up
try_pickup_item_quiet(s) ==
    LET player_pos == s.player.position
        item_index == FirstIndex(s.world.items, LAMBDA wi : wi.position = player_pos)
    IN  IF item_index # 0
        THEN LET world_item == s.world.items[item_index]
             IN  log([s EXCEPT !.world.items = RemoveAt(@, item_index),
                               !.player.inventory = Append(@, world_item.item)],
                     "You picked up " \o world_item.item.label \o ".")
        ELSE s

try_pickup_item(s) ==
    LET player_pos == s.player.position
        item_index == FirstIndex(s.world.items, LAMBDA wi : wi.position = player_pos)
    IN  IF item_index # 0
        THEN LET world_item == s.world.items[item_index]
             IN  log([s EXCEPT !.world.items = RemoveAt(@, item_index),
                               !.player.inventory = Append(@, world_item.item)],
                     "You picked up " \o world_item.item.label \o ".")
        ELSE log(s, "There is nothing here to pick up.")

\* mutant: the first inventory entry is removed instead of the chest
use_item_wrong_entry(s, item) ==
    IF item.item_type = "Key"
    THEN LET chest_index ==
                FirstIndex(s.player.inventory, LAMBDA inv : inv.item_type = "TreasureChest")
         IN  IF chest_index # 0
             THEN LET opened == log([s EXCEPT !.player.inventory = RemoveAt(@, 1)],
                        "When the key clicks in the lock the treasure chest spills open, dropping a pile of treasure on the ground")
                  IN  [opened EXCEPT !.world.items =
                          Append(@, WorldItem(s.player.position[1], s.player.position[2],
                                              Item("Treasure", "Pile of Treasure")))]
             ELSE log(s, "You used " \o item.label
                          \o ", but you need a treasure chest to unlock.")
    ELSE log(s, "You used " \o item.label \o ", but nothing happens.")

\* mutant: an item without effect falls to the ground
use_item_drops_unused(s, item) ==
    IF item.item_type = "Key"
    THEN LET chest_index ==
                FirstIndex(s.player.inventory, LAMBDA inv : inv.item_type = "TreasureChest")
         IN  IF chest_index # 0
             THEN LET opened == log([s EXCEPT !.player.inventory = RemoveAt(@, chest_index)],
                        "When the key clicks in the lock the treasure chest spills open, dropping a pile of treasure on the ground")
                  IN  [opened EXCEPT !.world.items =
                          Append(@, WorldItem(s.player.position[1], s.player.position[2],
                                              Item("Treasure", "Pile of Treasure")))]
             ELSE log(s, "You used " \o item.label
                          \o ", but you need a treasure chest to unlock.")
    ELSE [log(s, "You used " \o item.label \o ", but nothing happens.")
            EXCEPT !.world.items =
                Append(@, WorldItem(s.player.position[1], s.player.position[2], item))]

\* item has already been taken out of the inventory by the caller
\* mutant: the chest spills its treasure and stays in the inventory
use_item_keeps_chest(s, item) ==
    IF item.item_type = "Key"
    THEN LET chest_index ==
                FirstIndex(s.player.inventory, LAMBDA inv : inv.item_type = "TreasureChest")
         IN  IF chest_index # 0
             THEN LET opened == log(s,
                        "When the key clicks in the lock the treasure chest spills open, dropping a pile of treasure on the ground")
                  IN  [opened EXCEPT !.world.items =
                          Append(@, WorldItem(s.player.position[1], s.player.position[2],
                                              Item("Treasure", "Pile of Treasure")))]
             ELSE log(s, "You used " \o item.label
                          \o ", but you need a treasure chest to unlock.")
    ELSE log(s, "You used " \o item.label \o ", but nothing happens.")

use_item(s, item) ==
    IF item.item_type = "Key"
    THEN LET chest_index ==
                FirstIndex(s.player.inventory, LAMBDA inv : inv.item_type = "TreasureChest")
         IN  IF chest_index # 0
             THEN LET opened == log([s EXCEPT !.player.inventory = RemoveAt(@, chest_index)],
                        "When the key clicks in the lock the treasure chest spills open, dropping a pile of treasure on the ground")
                  IN  [opened EXCEPT !.world.items =
                          Append(@, WorldItem(s.player.position[1], s.player.position[2],
                                              Item("Treasure", "Pile of Treasure")))]
             ELSE log(s, "You used " \o item.label
                          \o ", but you need a treasure chest to unlock.")
    ELSE log(s, "You used " \o item.label \o ", but nothing happens.")

(***************************************************************************)
(* ItemUseResult (item.rs) as the caller in main.rs reads it.  use_item of *)
(* state.rs performs the drop itself and hands nothing back, so both       *)
(* fields are empty: returned_to_inventory is None (the empty sequence)    *)
(* and dropped_on_ground is the empty Vec.                                 *)
(***************************************************************************)
ItemUseResult == [returned_to_inventory |-> <<>>, dropped_on_ground |-> <<>>]

RECURSIVE drop_all(_, _)
drop_all(s, dropped) ==
    IF dropped = <<>> THEN s
    ELSE drop_all([s EXCEPT !.world.items =
                      Append(@, WorldItem(s.player.position[1], s.player.position[2],
                                          Head(dropped)))],
                  Tail(dropped))

\* mutant: the item is used without being taken out of the inventory
use_item_at_keeps_item(s, index) ==
    LET item == s.player.inventory[index]
        used == use_item(s, item)
        result == ItemUseResult
        returned == [used EXCEPT !.player.inventory = @ \o result.returned_to_inventory]
    IN  drop_all(returned, result.dropped_on_ground)

\* "Handle item usage" of show_use_item_dialog_window: the button of inventory
\* entry index was clicked
use_item_at(s, index) ==
    LET item == s.player.inventory[index]
        taken == [s EXCEPT !.player.inventory = RemoveAt(@, index)]
        used == use_item(taken, item)
        result == ItemUseResult
        returned == [used EXCEPT !.player.inventory = @ \o result.returned_to_inventory]
    IN  drop_all(returned, result.dropped_on_ground)

(***************************************************************************)
(* NPC per-turn behaviour (npc.rs).  Each procedure yields the SET of its  *)
(* possible outcomes [npc, world, player, msgs], one per combination of    *)
(* the random draws it makes; msgs is the Vec<String> it hands back.       *)
(***************************************************************************)
Outcome(npc, w, p, msgs) == [npc |-> npc, world |-> w, player |-> p, msgs |-> msgs]

\* directions of try_random_move: down, up, right, left
Directions == {<<0, 1>>, <<0, -1>>, <<1, 0>>, <<-1, 0>>}

MerchantMovePercent == 24
MerchantDropPercent == 15
PercentRange == 100
OrcSightRange == 5

\* the outcomes of rng.gen_range(0..100) < percent
Chance(percent) == {roll < percent : roll \in 0..(PercentRange - 1)}

\* mutant: the other NPCs are not looked for
can_step_over_npcs(self, w, p, other_npcs, new_pos) ==
    /\ is_valid_position(w, new_pos[1], new_pos[2])
    /\ is_walkable(w, new_pos[1], new_pos[2])
    /\ p.position # new_pos

\* the three tests a candidate tile of a random walk must pass
can_step(self, w, p, other_npcs, new_pos) ==
    /\ is_valid_position(w, new_pos[1], new_pos[2])
    /\ is_walkable(w, new_pos[1], new_pos[2])
    /\ p.position # new_pos
    /\ \A i \in 1..Len(other_npcs) : other_npcs[i].position # new_pos

drop_random_item(self, w, p, msgs) ==
    { LET name == CASE item_type = "Gem" -> "Precious Gem"
                    [] item_type = "Scroll" -> "Ancient Scroll"
                    [] item_type = "Potion" -> "Magic Potion"
                    [] OTHER -> "Unknown Item"
      IN  Outcome(self,
                  [w EXCEPT !.items =
                      Append(@, WorldItem(self.position[1], self.position[2],
                                          Item(item_type, name)))],
                  p,
                  Append(msgs, "The merchant dropped a " \o name \o " from his cart!"))
      : item_type \in {"Gem", "Scroll", "Potion"} }

\* mutant: the cart may clip the player as the merchant moves off
merchant_move_jostles(self, w, p, new_pos) ==
    LET item_index == FirstIndex(w.items, LAMBDA wi : wi.position = new_pos)
        crushed == IF item_index # 0
                   THEN [w EXCEPT !.items = RemoveAt(@, item_index)]
                   ELSE w
        msgs == IF item_index # 0
                THEN << "The merchant and his cart destroyed the "
                          \o w.items[item_index].item.label \o " on the ground!" >>
                ELSE << >>
        moved == [self EXCEPT !.position = new_pos]
    IN  UNION { IF drops
                THEN drop_random_item(moved, crushed, take_damage(p, harm), msgs)
                ELSE {Outcome(moved, crushed, take_damage(p, harm), msgs)}
                : drops \in Chance(MerchantDropPercent), harm \in {0, 1} }

\* the body of the loop of try_random_move once a valid new_pos is found
merchant_move(self, w, p, new_pos) ==
    LET item_index == FirstIndex(w.items, LAMBDA wi : wi.position = new_pos)
        crushed == IF item_index # 0
                   THEN [w EXCEPT !.items = RemoveAt(@, item_index)]
                   ELSE w
        msgs == IF item_index # 0
                THEN << "The merchant and his cart destroyed the "
                          \o w.items[item_index].item.label \o " on the ground!" >>
                ELSE << >>
        moved == [self EXCEPT !.position = new_pos]
    IN  UNION { IF drops
                THEN drop_random_item(moved, crushed, p, msgs)
                ELSE {Outcome(moved, crushed, p, msgs)}
                : drops \in Chance(MerchantDropPercent) }

try_random_move(self, w, p, other_npcs) ==
    LET at(d) == <<self.position[1] + d[1], self.position[2] + d[2]>>
    IN  UNION { IF can_step(self, w, p, other_npcs, at(d1))
                THEN merchant_move(self, w, p, at(d1))
                ELSE UNION { IF can_step(self, w, p, other_npcs, at(d2))
                             THEN merchant_move(self, w, p, at(d2))
                             ELSE {Outcome(self, w, p, << >>)}
                             : d2 \in Directions }
                : d1 \in Directions }

\* mutant: a merchant that stays where it is may drop an item all the same
merchant_behavior_drops_standing(self, w, p, other_npcs) ==
    UNION { IF moves
            THEN try_random_move(self, w, p, other_npcs)
            ELSE {Outcome(self, w, p, << >>)} \cup drop_random_item(self, w, p, << >>)
            : moves \in Chance(MerchantMovePercent) }

merchant_behavior(self, w, p, other_npcs) ==
    UNION { IF moves
            THEN try_random_move(self, w, p, other_npcs)
            ELSE {Outcome(self, w, p, << >>)}
            : moves \in Chance(MerchantMovePercent) }

\* distance_to_player(self, p) <= 5.0, on the squares: the f32 square root is
\* monotone and exact on 25
within_sight(self, p) ==
    LET dx == self.position[1] - p.position[1]
        dy == self.position[2] - p.position[2]
    IN  dx * dx + dy * dy <= OrcSightRange * OrcSightRange

Sign(d) == IF d > 0 THEN 1 ELSE IF d < 0 THEN -1 ELSE 0

\* mutant: the blow is drawn from a range one too wide
move_towards_player_or_attack_overshoots(self, w, p, other_npcs) ==
    LET dx == p.position[1] - self.position[1]
        dy == p.position[2] - self.position[2]
        new_pos == <<self.position[1] + Sign(dx), self.position[2] + Sign(dy)>>
    IN  IF new_pos = p.position
        THEN { Outcome(self, w, take_damage(p, damage),
                       << "The orc " \o self.name \o " attacks you for "
                            \o ToString(damage) \o " damage!" >>)
               : damage \in MinOrcDamage..(MaxOrcDamage + 1) }
        ELSE IF \/ ~is_valid_position(w, new_pos[1], new_pos[2])
                \/ ~is_walkable(w, new_pos[1], new_pos[2])
        THEN {Outcome(self, w, p, << >>)}
        ELSE IF \E i \in 1..Len(other_npcs) : other_npcs[i].position = new_pos
        THEN {Outcome(self, w, p, << >>)}
        ELSE {Outcome([self EXCEPT !.position = new_pos], w, p, << >>)}

\* mutant: the orc steps towards the player whoever stands in its way
move_towards_player_or_attack_tramples(self, w, p, other_npcs) ==
    LET dx == p.position[1] - self.position[1]
        dy == p.position[2] - self.position[2]
        new_pos == <<self.position[1] + Sign(dx), self.position[2] + Sign(dy)>>
    IN  IF new_pos = p.position
        THEN { Outcome(self, w, take_damage(p, damage),
                       << "The orc " \o self.name \o " attacks you for "
                            \o ToString(damage) \o " damage!" >>)
               : damage \in MinOrcDamage..MaxOrcDamage }
        ELSE IF \/ ~is_valid_position(w, new_pos[1], new_pos[2])
                \/ ~is_walkable(w, new_pos[1], new_pos[2])
        THEN {Outcome(self, w, p, << >>)}
        ELSE {Outcome([self EXCEPT !.position = new_pos], w, p, << >>)}

\* mutant: the attack is not written to the log
move_towards_player_or_attack_silent(self, w, p, other_npcs) ==
    LET dx == p.position[1] - self.position[1]
        dy == p.position[2] - self.position[2]
        new_pos == <<self.position[1] + Sign(dx), self.position[2] + Sign(dy)>>
    IN  IF new_pos = p.position
        THEN { Outcome(self, w, take_damage(p, damage), << >>)
               : damage \in MinOrcDamage..MaxOrcDamage }
        ELSE IF \/ ~is_valid_position(w, new_pos[1], new_pos[2])
                \/ ~is_walkable(w, new_pos[1], new_pos[2])
        THEN {Outcome(self, w, p, << >>)}
        ELSE IF \E i \in 1..Len(other_npcs) : other_npcs[i].position = new_pos
        THEN {Outcome(self, w, p, << >>)}
        ELSE {Outcome([self EXCEPT !.position = new_pos], w, p, << >>)}

\* mutant: an orc whose way is barred walks at random instead of waiting
move_towards_player_or_attack_wanders(self, w, p, other_npcs) ==
    LET dx == p.position[1] - self.position[1]
        dy == p.position[2] - self.position[2]
        new_pos == <<self.position[1] + Sign(dx), self.position[2] + Sign(dy)>>
        at(d) == <<self.position[1] + d[1], self.position[2] + d[2]>>
        wander == { IF can_step(self, w, p, other_npcs, at(d))
                    THEN Outcome([self EXCEPT !.position = at(d)], w, p, << >>)
                    ELSE Outcome(self, w, p, << >>)
                    : d \in Directions }
    IN  IF new_pos = p.position
        THEN { Outcome(self, w, take_damage(p, damage),
                       << "The orc " \o self.name \o " attacks you for "
                            \o ToString(damage) \o " damage!" >>)
               : damage \in MinOrcDamage..MaxOrcDamage }
        ELSE IF \/ ~is_valid_position(w, new_pos[1], new_pos[2])
                \/ ~is_walkable(w, new_pos[1], new_pos[2])
        THEN wander
        ELSE IF \E i \in 1..Len(other_npcs) : other_npcs[i].position = new_pos
        THEN wander
        ELSE {Outcome([self EXCEPT !.position = new_pos], w, p, << >>)}

move_towards_player_or_attack(self, w, p, other_npcs) ==
    LET dx == p.position[1] - self.position[1]
        dy == p.position[2] - self.position[2]
        new_pos == <<self.position[1] + Sign(dx), self.position[2] + Sign(dy)>>
    IN  IF new_pos = p.position
        THEN { Outcome(self, w, take_damage(p, damage),
                       << "The orc " \o self.name \o " attacks you for "
                            \o ToString(damage) \o " damage!" >>)
               : damage \in MinOrcDamage..MaxOrcDamage }
        ELSE IF \/ ~is_valid_position(w, new_pos[1], new_pos[2])
                \/ ~is_walkable(w, new_pos[1], new_pos[2])
        THEN {Outcome(self, w, p, << >>)}
        ELSE IF \E i \in 1..Len(other_npcs) : other_npcs[i].position = new_pos
        THEN {Outcome(self, w, p, << >>)}
        ELSE {Outcome([self EXCEPT !.position = new_pos], w, p, << >>)}

\* mutant: an orc far from the player walks as the merchant does, cart and all
try_random_move_orc_drops(self, w, p, other_npcs) ==
    LET at(d) == <<self.position[1] + d[1], self.position[2] + d[2]>>
    IN  UNION { IF can_step(self, w, p, other_npcs, at(d1))
                THEN merchant_move(self, w, p, at(d1))
                ELSE UNION { IF can_step(self, w, p, other_npcs, at(d2))
                             THEN merchant_move(self, w, p, at(d2))
                             ELSE {Outcome(self, w, p, << >>)}
                             : d2 \in Directions }
                : d1 \in Directions }

\* mutant: an orc far from the player does not ask whether a tile can be walked
try_random_move_orc_climbs(self, w, p, other_npcs) ==
    LET at(d) == <<self.position[1] + d[1], self.position[2] + d[2]>>
        free(d) == /\ is_valid_position(w, at(d)[1], at(d)[2])
                   /\ p.position # at(d)
                   /\ \A i \in 1..Len(other_npcs) : other_npcs[i].position # at(d)
        step(d) == Outcome([self EXCEPT !.position = at(d)], w, p, << >>)
    IN  UNION { IF free(d1)
                THEN {step(d1)}
                ELSE { IF free(d2) THEN step(d2) ELSE Outcome(self, w, p, << >>)
                       : d2 \in Directions }
                : d1 \in Directions }

try_random_move_orc(self, w, p, other_npcs) ==
    LET at(d) == <<self.position[1] + d[1], self.position[2] + d[2]>>
        step(d) == Outcome([self EXCEPT !.position = at(d)], w, p, << >>)
    IN  UNION { IF can_step(self, w, p, other_npcs, at(d1))
                THEN {step(d1)}
                ELSE { IF can_step(self, w, p, other_npcs, at(d2))
                       THEN step(d2)
                       ELSE Outcome(self, w, p, << >>)
                       : d2 \in Directions }
                : d1 \in Directions }

orc_behavior(self, w, p, other_npcs) ==
    IF within_sight(self, p)
    THEN move_towards_player_or_attack(self, w, p, other_npcs)
    ELSE try_random_move_orc(self, w, p, other_npcs)

\* mutant: a guard has something to say on its turn
perform_action_guard_speaks(self, w, p, other_npcs) ==
    CASE self.npc_type = "Merchant" -> merchant_behavior(self, w, p, other_npcs)
      [] self.npc_type = "Orc" -> orc_behavior(self, w, p, other_npcs)
      [] self.npc_type = "Guard" -> {Outcome(self, w, p, << "Halt!" >>)}
      [] OTHER -> {Outcome(self, w, p, << >>)}

perform_action(self, w, p, other_npcs) ==
    CASE self.npc_type = "Merchant" -> merchant_behavior(self, w, p, other_npcs)
      [] self.npc_type = "Orc" -> orc_behavior(self, w, p, other_npcs)
      [] OTHER -> {Outcome(self, w, p, << >>)}

(***************************************************************************)
(* GameState::process_npc_actions: every NPC in turn performs its action   *)
(* against the world, the player and the other NPCs as they are at that    *)
(* moment; the messages it hands back go to the log.                       *)
(***************************************************************************)
RECURSIVE log_all(_, _)
log_all(s, msgs) ==
    IF msgs = << >> THEN s ELSE log_all(log(s, Head(msgs)), Tail(msgs))

RECURSIVE npc_turns(_, _)
npc_turns(s, i) ==
    IF i > Len(s.npcs) THEN {s}
    ELSE UNION { npc_turns(t, i + 1)
                 : t \in { log_all([s EXCEPT !.npcs[i] = o.npc,
                                             !.world = o.world,
                                             !.player = o.player],
                                   o.msgs)
                           : o \in perform_action(s.npcs[i], s.world, s.player,
                                                  RemoveAt(s.npcs, i)) } }

process_npc_actions(s) == npc_turns(s, 1)

(***************************************************************************)
(* Win/loss conditions (game_condition.rs).  A condition is a record       *)
(* [kind, target_turns, required_items]; a mode leaves the fields it does  *)
(* not have at 0 and << >>.                                                *)
(***************************************************************************)
TreasureHuntCondition ==
    [kind |-> "TreasureHunt", target_turns |-> 0, required_items |-> << >>]

SurvivalCondition_new(target_turns) ==
    [kind |-> "Survival", target_turns |-> target_turns, required_items |-> << >>]

CollectionCondition_new(required_items) ==
    [kind |-> "Collection", target_turns |-> 0, required_items |-> required_items]

\* Iterator::filter(..).count() over the inventory
CountType(inventory, item_type) ==
    Cardinality({i \in 1..Len(inventory) : inventory[i].item_type = item_type})

\* mutant: an unopened chest counts as the treasure
TreasureHunt_check_status_chest_counts(s) ==
    IF ~is_alive(s.player) THEN "Lost"
    ELSE IF \E i \in 1..Len(s.player.inventory) :
                s.player.inventory[i].item_type \in {"Treasure", "TreasureChest"}
    THEN "Won"
    ELSE "Playing"

TreasureHunt_check_status(s) ==
    IF ~is_alive(s.player) THEN "Lost"
    ELSE IF \E i \in 1..Len(s.player.inventory) :
                s.player.inventory[i].item_type = "Treasure"
    THEN "Won"
    ELSE "Playing"

Survival_check_status(cond, s) ==
    IF ~is_alive(s.player) THEN "Lost"
    ELSE IF Len(s.log_messages) >= cond.target_turns THEN "Won"
    ELSE "Playing"

\* mutant: the requirements are scanned before the player's health is looked at
Collection_check_status_win_first(cond, s) ==
    IF \E k \in 1..Len(cond.required_items) :
            CountType(s.player.inventory, cond.required_items[k][1])
                < cond.required_items[k][2]
    THEN IF ~is_alive(s.player) THEN "Lost" ELSE "Playing"
    ELSE "Won"

\* mutant: only the first requirement is looked at
Collection_check_status_first_only(cond, s) ==
    IF ~is_alive(s.player) THEN "Lost"
    ELSE IF \E k \in 1..Min(1, Len(cond.required_items)) :
                CountType(s.player.inventory, cond.required_items[k][1])
                    < cond.required_items[k][2]
    THEN "Playing"
    ELSE "Won"

Collection_check_status(cond, s) ==
    IF ~is_alive(s.player) THEN "Lost"
    ELSE IF \E k \in 1..Len(cond.required_items) :
                CountType(s.player.inventory, cond.required_items[k][1])
                    < cond.required_items[k][2]
    THEN "Playing"
    ELSE "Won"

check_status(cond, s) ==
    CASE cond.kind = "TreasureHunt" -> TreasureHunt_check_status(s)
      [] cond.kind = "Survival" -> Survival_check_status(cond, s)
      [] cond.kind = "Collection" -> Collection_check_status(cond, s)

\* the conditions start_game_with_type builds (main.rs)
SurvivalTargetTurns == 50
RequiredGems == 3
RequiredScrolls == 2
RequiredPotions == 1

start_game_condition(game_type) ==
    CASE game_type = "TreasureHunt" -> TreasureHuntCondition
      [] game_type = "Survival" -> SurvivalCondition_new(SurvivalTargetTurns)
      [] game_type = "Collection" ->
            CollectionCondition_new(<< <<"Gem", RequiredGems>>,
                                       <<"Scroll", RequiredScrolls>>,
                                       <<"Potion", RequiredPotions>> >>)

(***************************************************************************)
(* A new TreasureHunt game.  The cast, the chest and the player are those  *)
(* of TreasureHuntCondition::setup_world, in the same order, placed on the *)
(* bounded room.                                                           *)
(***************************************************************************)
Layout ==
    [goblin |-> <<1, 1>>, merchant |-> <<3, 1>>, skeleton |-> <<3, 2>>,
     guard |-> <<1, 3>>, orc |-> <<3, 3>>, chest |-> <<2, 3>>, player |-> <<1, 2>>]

Player_default ==
    [position |-> Layout.player, health |-> DefaultHealth,
     max_health |-> DefaultHealth, inventory |-> << >>]

WelcomeLog ==
    << "Welcome to the dungeon!", "Press arrow keys to move.", "Explore carefully..." >>

TreasureHunt_setup_world(s) ==
    [s EXCEPT
        !.npcs = @ \o
            << NPC(Layout.goblin[1], Layout.goblin[2], "Goblin", "Grob"),
               NPC(Layout.merchant[1], Layout.merchant[2], "Merchant", "The Merchant"),
               NPC(Layout.skeleton[1], Layout.skeleton[2], "Skeleton", "Bonecrusher"),
               NPC(Layout.guard[1], Layout.guard[2], "Guard", "Guard Captain"),
               NPC(Layout.orc[1], Layout.orc[2], "Orc", "Orc Warrior") >>,
        !.world.items = Append(@, WorldItem(Layout.chest[1], Layout.chest[2],
                                            Item("TreasureChest", "Treasure Chest"))),
        !.player.position = Layout.player]

GameState_new ==
    TreasureHunt_setup_world(
        [player |-> Player_default, world |-> GameWorld_new(Width, Height),
         npcs |-> << >>, log_messages |-> WelcomeLog])

(***************************************************************************)
(* The other modes.  CollectionCondition::setup_world places a fixed cast; *)
(* SurvivalCondition::setup_world places the player and five orcs by       *)
(* rejection sampling.  found is the sequence of what the six calls of     *)
(* find_random_position returned, NoPosition standing for Option::None.    *)
(***************************************************************************)
CollectionLayout ==
    [merchant |-> <<3, 2>>, goblin |-> <<1, 1>>, guard |-> <<5, 1>>,
     orc |-> <<6, 3>>, player |-> <<1, 2>>]

Collection_setup_world(s) ==
    [s EXCEPT
        !.npcs = @ \o
            << NPC(CollectionLayout.merchant[1], CollectionLayout.merchant[2],
                   "Merchant", "The Wandering Merchant"),
               NPC(CollectionLayout.goblin[1], CollectionLayout.goblin[2],
                   "Goblin", "Snitch"),
               NPC(CollectionLayout.guard[1], CollectionLayout.guard[2],
                   "Guard", "Tower Guard"),
               NPC(CollectionLayout.orc[1], CollectionLayout.orc[2],
                   "Orc", "Grum the Collector") >>,
        !.player.position = CollectionLayout.player]

NoPosition == << >>

MaxPlacementAttempts == 100

orc_names ==
    << "Urg the Destroyer", "Grok the Fierce", "Morg the Brutal",
       "Thok the Savage", "Vrak the Terrible" >>

\* what one call of the closure can return: any tile inside the border that is
\* walkable and not yet occupied, or None when every one of the attempts drew a
\* tile that is not
find_random_position(w, occupied) ==
    LET drawn == (1..(w.size[1] - 2)) \X (1..(w.size[2] - 2))
        good == {pos \in drawn : is_walkable(w, pos[1], pos[2]) /\ pos \notin occupied}
    IN  good \cup (IF drawn \ good # {} /\ MaxPlacementAttempts > 0
                   THEN {NoPosition} ELSE {})

\* occupied_positions when the k-th call is made
occupied_positions(found, k) == {found[j] : j \in 1..(k - 1)} \ {NoPosition}

\* found is a sequence of returns the six calls can make one after the other
CanBeFound(w, found) ==
    /\ Len(found) = Len(orc_names) + 1
    /\ \A k \in 1..Len(found) :
          found[k] \in find_random_position(w, occupied_positions(found, k))

Survival_setup_world(s, found) ==
    LET placed == SelectSeq([k \in 1..Len(orc_names) |->
                                [pos |-> found[k + 1], name |-> orc_names[k]]],
                            LAMBDA o : o.pos # NoPosition)
    IN  [s EXCEPT
            !.player.position = IF found[1] # NoPosition THEN found[1] ELSE Layout.player,
            !.npcs = @ \o [k \in 1..Len(placed) |->
                              NPC(placed[k].pos[1], placed[k].pos[2], "Orc", placed[k].name)]]

setup_world(cond, s, found) ==
    CASE cond.kind = "TreasureHunt" -> TreasureHunt_setup_world(s)
      [] cond.kind = "Survival" -> Survival_setup_world(s, found)
      [] cond.kind = "Collection" -> Collection_setup_world(s)

\* GameState::with_condition: a blank game populated by the mode
GameState_with_condition(cond, found) ==
    setup_world(cond,
                [player |-> Player_default, world |-> GameWorld_new(Width, Height),
                 npcs |-> << >>, log_messages |-> WelcomeLog],
                found)

\* where setup_world puts the cast and the player in the world of
\* GameWorld::default, mode by mode
TreasureHuntPositions ==
    {<<5, 5>>, <<15, 8>>, <<25, 12>>, <<8, 20>>, <<30, 25>>, <<10, 15>>}

CollectionPositions == {<<25, 15>>, <<5, 5>>, <<40, 20>>, <<15, 25>>, <<10, 15>>}

SurvivalFallbackPosition == <<10, 15>>

\* the tiles a Survival game can place on in that world, its fallback included
SurvivalPositions ==
    {SurvivalFallbackPosition}
        \cup (find_random_position(GameWorld_default, {}) \ {NoPosition})

\* GameState::check_game_status asks the active condition
check_game_status(cond, s) == check_status(cond, s)

(***************************************************************************)
(* Games in progress.  An opening is a sequence of operations played from  *)
(* the new game, with every random draw fixed; the specification starts    *)
(* from the state each opening leads to and explores every operation, with *)
(* every draw, from there.                                                 *)
(*   <<"move", dx, dy, damage>>   try_move_player, with the damage drawn   *)
(*   <<"pickup">>                 try_pickup_item                          *)
(*   <<"use", index>>             the item button of the use-item dialog   *)
(*   <<"npcs", pos, drop, lost>>  process_npc_actions, the draws being     *)
(*                                those that leave the merchant at pos,    *)
(*                                make it drop an item of type drop ("" if *)
(*                                it drops nothing) and cost the player    *)
(*                                lost health                              *)
(***************************************************************************)
MerchantOf(s) == s.npcs[FirstIndex(s.npcs, LAMBDA n : n.npc_type = "Merchant")]

NpcPass(s, pos, drop, lost) ==
    CHOOSE t \in process_npc_actions(s) :
        /\ MerchantOf(t).position = pos
        /\ t.player.health = Max(s.player.health - lost, 0)
        /\ IF drop = ""
           THEN Len(t.world.items) <= Len(s.world.items)
           ELSE /\ Len(t.world.items) > 0
                /\ t.world.items[Len(t.world.items)] =
                      [position |-> pos,
                       item |-> t.world.items[Len(t.world.items)].item]
                /\ t.world.items[Len(t.world.items)].item.item_type = drop
                /\ t.world.items[Len(t.world.items)] \notin
                      {s.world.items[k] : k \in 1..Len(s.world.items)}

Apply(s, o) ==
    CASE o[1] = "move" -> try_move_player(s, o[2], o[3], o[4]).state
      [] o[1] = "pickup" -> try_pickup_item(s)
      [] o[1] = "use" -> use_item_at(s, o[2])
      [] o[1] = "npcs" -> NpcPass(s, o[2], o[3], o[4])

RECURSIVE Run(_, _)
Run(s, script) ==
    IF script = << >> THEN s ELSE Run(Apply(s, Head(script)), Tail(script))

Move(dx, dy) == <<"move", dx, dy, MinOrcDamage>>
Hit(dx, dy, damage) == <<"move", dx, dy, damage>>

\* to the middle of the room, every NPC and the chest one step away
OpeningCentre == << Move(1, 0) >>

\* next to the goblin and the merchant
OpeningNorth == << Move(1, -1) >>

\* onto the chest
OpeningOnChest == << Move(1, 1) >>

\* onto the chest, and pick it up
OpeningChest == OpeningOnChest \o << <<"pickup">> >>

\* topple the skeleton from the middle of the room
OpeningBones == OpeningCentre \o << Move(1, 0) >>

\* ... and pick up its key, the chest still on the ground
OpeningKey == OpeningBones \o << Move(1, 0), <<"pickup">> >>

\* ... and use the key with no chest at hand
OpeningKeyWasted == OpeningKey \o << <<"use", 1>> >>

\* the chest in hand, standing on the key the skeleton left
OpeningOnKey == OpeningChest \o << Move(1, -1), Move(1, -1) >>

\* ... and pick it up
OpeningChestKey == OpeningOnKey \o << <<"pickup">> >>

\* ... the chest unlocked, the treasure at the player's feet
OpeningTreasure == OpeningChestKey \o << <<"use", 2>> >>

\* ... and picked up
OpeningWon == OpeningTreasure \o << <<"pickup">> >>

\* run into the orc until 12 health is left
OpeningHurt ==
    OpeningCentre \o
    << Hit(1, 1, MaxOrcDamage), Hit(1, 1, MaxOrcDamage), Hit(1, 1, MaxOrcDamage),
       Hit(1, 1, MaxOrcDamage), Hit(1, 1, 8) >>

\* ... and once more
OpeningDead == OpeningHurt \o << Hit(1, 1, MaxOrcDamage) >>

\* walk into the west wall until the log is full
IntoWall == [k \in 1..10 |-> Move(-1, 0)]
Bumped10 == Run(GameState_new, IntoWall)
Bumped20 == Run(Bumped10, IntoWall)
Bumped30 == Run(Bumped20, IntoWall)
Bumped40 == Run(Bumped30, IntoWall)
Bumped50 == Run(Bumped40, IntoWall)

\* the merchant drops a gem and a scroll on its way; the player collects the
\* gem, the chest, the scroll and the key, in this order
OpeningCollector ==
    << <<"npcs", <<2, 1>>, "Gem", 0>>,
       <<"npcs", <<3, 1>>, "Scroll", MinOrcDamage>>,
       Move(1, -1), <<"pickup">>,
       Move(-1, 1), Move(1, 1), <<"pickup">>,
       <<"npcs", <<2, 1>>, "", MinOrcDamage>>,
       Move(1, -1), Move(1, -1),
       Move(0, -1), <<"pickup">>,
       Move(0, 1), <<"pickup">> >>

\* the merchant drops a gem next to its place and steps back; the player
\* collects the chest and the key, opens the chest standing on the gem, and
\* steps aside: the gem and the treasure lie on one tile, next to the merchant
OpeningStacked ==
    << <<"npcs", <<2, 1>>, "Gem", 0>>,
       <<"npcs", <<3, 1>>, "", MinOrcDamage>>,
       Move(1, 1), <<"pickup">>,
       Move(1, -1), Move(1, -1), <<"pickup">>,
       Move(-1, -1), <<"use", 2>>,
       Move(1, 1) >>

Openings ==
    { << >>, OpeningCentre, OpeningNorth, OpeningOnChest, OpeningChest,
      OpeningBones, OpeningKey, OpeningKeyWasted, OpeningOnKey, OpeningChestKey,
      OpeningTreasure, OpeningWon, OpeningHurt, OpeningDead,
      OpeningCollector, OpeningStacked }

(***************************************************************************)
(* The specification of the resolver: one action per operation of          *)
(* GameState, applied to a TreasureHunt game in progress.                  *)
(***************************************************************************)
Become(s) ==
    /\ player' = s.player
    /\ world' = s.world
    /\ npcs' = s.npcs
    /\ log_messages' = s.log_messages

\* the states the explored step starts from
Opened == {Run(GameState_new, script) : script \in Openings} \cup {Bumped50}

Init ==
    /\ \E s \in Opened :
          /\ player = s.player
          /\ world = s.world
          /\ npcs = s.npcs
          /\ log_messages = s.log_messages
    /\ condition = TreasureHuntCondition
    /\ last = [op |-> "new"]
    /\ appended = << >>
    /\ steps = 0
    /\ dialog_state = "NoDialog"

\* the deltas handle_input can pass: each axis -1, 0 or 1, not both 0
Deltas == {d \in (-1..1) \X (-1..1) : d # <<0, 0>>}

\* the type of the NPC standing on pos, "None" when there is none
NpcTypeAt(s, pos) ==
    LET i == FirstIndex(s.npcs, LAMBDA n : n.position = pos)
    IN  IF i = 0 THEN "None" ELSE s.npcs[i].npc_type

TryMovePlayer ==
    /\ steps < MaxSteps
    /\ \E d \in Deltas, damage \in MinOrcDamage..MaxOrcDamage :
          LET r == try_move_player(GS, d[1], d[2], damage)
          IN  /\ Become(r.state)
              /\ last' = [op |-> "try_move_player", dx |-> d[1], dy |-> d[2],
                          ret |-> r.ret,
                          hit |-> NpcTypeAt(GS, <<player.position[1] + d[1],
                                                  player.position[2] + d[2]>>)]
    /\ steps' = steps + 1
    /\ UNCHANGED <<condition, appended, dialog_state>>

TryPickupItem ==
    /\ steps < MaxSteps
    /\ Become(try_pickup_item(GS))
    /\ last' = [op |-> "try_pickup_item"]
    /\ steps' = steps + 1
    /\ UNCHANGED <<condition, appended, dialog_state>>

UseItem ==
    /\ steps < MaxSteps
    /\ \E index \in 1..Len(player.inventory) :
          /\ Become(use_item_at(GS, index))
          /\ last' = [op |-> "use_item", index |-> index,
                      item_type |-> player.inventory[index].item_type]
    /\ steps' = steps + 1
    /\ UNCHANGED <<condition, appended, dialog_state>>

ProcessNpcActions ==
    /\ steps < MaxSteps
    /\ \E s \in process_npc_actions(GS) : Become(s)
    /\ last' = [op |-> "process_npc_actions", npcs_before |-> npcs]
    /\ steps' = steps + 1
    /\ UNCHANGED <<condition, appended, dialog_state>>

\* the status check update() makes after the input of a frame is handled
CheckGameStatus ==
    /\ steps < MaxSteps
    /\ last' = [op |-> "check_status", ret |-> check_game_status(condition, GS)]
    /\ steps' = steps + 1
    /\ UNCHANGED <<player, world, npcs, log_messages, condition, appended, dialog_state>>

Next ==
    TryMovePlayer \/ TryPickupItem \/ UseItem \/ ProcessNpcActions \/ CheckGameStatus

Spec == Init /\ [][Next]_vars

(***************************************************************************)
(* The specification of the log alone: add_log_message applied again and   *)
(* again, appended keeping every message ever handed to it.                *)
(***************************************************************************)
Idle ==
    /\ player = Player_default
    /\ world = GameWorld_new(Width, Height)
    /\ npcs = << >>
    /\ condition = TreasureHuntCondition
    /\ last = [op |-> "new"]
    /\ steps = 0
    /\ dialog_state = "NoDialog"

InitLog ==
    /\ Idle
    /\ \E n \in 0..Len(WelcomeLog) : log_messages = SubSeq(WelcomeLog, 1, n)
    /\ appended = log_messages

AddLogMessage ==
    /\ Len(appended) < MaxAppends
    /\ LET message == "message " \o ToString(Len(appended) + 1)
       IN  /\ log_messages' = add_log_message(log_messages, message)
           /\ appended' = Append(appended, message)
    /\ last' = [op |-> "add_log_message"]
    /\ UNCHANGED <<player, world, npcs, condition, steps, dialog_state>>

NextLog == AddLogMessage

SpecLog == InitLog /\ [][NextLog]_vars

(***************************************************************************)
(* The specification of the status check: check_status applied to a game   *)
(* of each mode, the player's health, the inventory and the length of the  *)
(* log drawn from bounded sets.                                            *)
(***************************************************************************)
Repeat(x, n) == [k \in 1..n |-> x]

Gem == Item("Gem", "Precious Gem")
Scroll == Item("Scroll", "Ancient Scroll")
Potion == Item("Potion", "Magic Potion")
Treasure == Item("Treasure", "Pile of Treasure")
Chest == Item("TreasureChest", "Treasure Chest")
Key == Item("Key", "Bone Key")

\* what the merchant's cart can have filled an inventory with: up to one more
\* of each type than the Collection game asks for
Collected ==
    { Repeat(Gem, g) \o Repeat(Scroll, c) \o Repeat(Potion, q) :
        g \in 0..(RequiredGems + 1), c \in 0..(RequiredScrolls + 1),
        q \in 0..(RequiredPotions + 1) }

\* the inventories of each mode: only TreasureHunt has a chest and a skeleton
\* to yield a key and a treasure, and Survival has neither a chest nor a merchant
InventoriesOf(kind) ==
    CASE kind = "TreasureHunt" ->
            Collected \cup {Append(inv, Treasure) : inv \in Collected}
                \cup { <<Chest>>, <<Key>>, <<Chest, Key>>, <<Gem, Chest>>,
                       <<Chest, Treasure>> }
      [] kind = "Collection" -> Collected
      [] kind = "Survival" -> { << >> }

\* the conditions of each mode: the one start_game_with_type builds and, for
\* Collection, other lists CollectionCondition::new accepts
ConditionsOf(kind) ==
    IF kind = "Collection"
    THEN { start_game_condition(kind),
           CollectionCondition_new(<< >>),
           CollectionCondition_new(<< <<"Potion", RequiredPotions>>,
                                      <<"Gem", RequiredGems + 1>> >>) }
    ELSE { start_game_condition(kind) }

\* what lies on the ground: nothing, or a treasure under the player's feet
GroundsOf(kind) ==
    IF kind = "TreasureHunt"
    THEN { << >>, << WorldItem(Layout.player[1], Layout.player[2], Treasure) >> }
    ELSE { << >> }

HealthSamples == {0, 1, MinOrcDamage, DefaultHealth}

LogLengths == {Len(WelcomeLog), MaxLogMessages - 1, MaxLogMessages}

InitStatus ==
    /\ \E game_type \in {"TreasureHunt", "Survival", "Collection"} :
          /\ condition \in ConditionsOf(game_type)
          /\ \E inv \in InventoriesOf(game_type), health \in HealthSamples :
                player = [Player_default EXCEPT !.inventory = inv, !.health = health]
          /\ \E ground \in GroundsOf(game_type) :
                world = [GameWorld_new(Width, Height) EXCEPT !.items = ground]
    /\ \E n \in LogLengths : log_messages = Repeat("Can't move there!", n)
    /\ npcs = << >>
    /\ last = [op |-> "new"]
    /\ appended = << >>
    /\ steps = 0
    /\ dialog_state = "NoDialog"

CheckStatus ==
    /\ last.op = "new"
    /\ last' = [op |-> "check_status", ret |-> check_status(condition, GS)]
    /\ UNCHANGED <<player, world, npcs, log_messages, condition, appended, steps, dialog_state>>

NextStatus == CheckStatus

SpecStatus == InitStatus /\ [][NextStatus]_vars

(***************************************************************************)
(* The specification of a Survival game: messages are appended to the log  *)
(* and the status is checked, for targets around the cap of the log.       *)
(***************************************************************************)
\* sampled returns of the six calls of find_random_position
SurvivalDraws ==
    { << <<1, 2>>, <<2, 2>>, <<3, 2>>, <<6, 1>>, <<6, 3>>, <<5, 2>> >>,
      << <<6, 3>>, <<1, 1>>, <<5, 2>>, NoPosition, <<2, 3>>, NoPosition >>,
      << <<3, 2>>, <<3, 1>>, <<4, 2>>, NoPosition, NoPosition, NoPosition >>,
      << <<1, 2>>, <<4, 2>>, <<3, 2>>, NoPosition, NoPosition, NoPosition >>,
      << <<1, 1>>, <<6, 3>>, <<6, 2>>, NoPosition, NoPosition, NoPosition >> }

SurvivalTargets == {MaxLogMessages - 1, MaxLogMessages, MaxLogMessages + 1}

InitSurvival ==
    /\ \E target_turns \in SurvivalTargets :
          condition = SurvivalCondition_new(target_turns)
    /\ \E found \in SurvivalDraws :
          /\ CanBeFound(GameWorld_new(Width, Height), found)
          /\ LET s == GameState_with_condition(condition, found)
             IN  /\ player = s.player
                 /\ world = s.world
                 /\ npcs = s.npcs
                 /\ log_messages = s.log_messages
    /\ appended = log_messages
    /\ last = [op |-> "new"]
    /\ steps = 0
    /\ dialog_state = "NoDialog"

NextSurvival == AddLogMessage \/ CheckGameStatus

SpecSurvival == InitSurvival /\ [][NextSurvival]_vars

(***************************************************************************)
(* The specification of the resolver over every mode: the operations of    *)
(* Spec applied to a TreasureHunt game in progress and to a Collection or  *)
(* Survival game as setup_world leaves it.                                 *)
(***************************************************************************)
\* games of the other modes played to the player's death: in Collection the
\* player walks round the merchant to the orc and runs into it five times, in
\* Survival the player runs five times into the orc placed next to it
CollectionFall ==
    << Move(1, 1), Move(1, 0), Move(1, 0), Move(1, 0),
       Hit(1, 0, MaxOrcDamage), Hit(1, 0, MaxOrcDamage), Hit(1, 0, MaxOrcDamage),
       Hit(1, 0, MaxOrcDamage), Hit(1, 0, MaxOrcDamage) >>

SurvivalFall ==
    << Hit(1, 0, MaxOrcDamage), Hit(1, 0, MaxOrcDamage), Hit(1, 0, MaxOrcDamage),
       Hit(1, 0, MaxOrcDamage), Hit(1, 0, MaxOrcDamage) >>

CrowdedDraw == << <<1, 2>>, <<2, 2>>, <<3, 2>>, <<6, 1>>, <<6, 3>>, <<5, 2>> >>

Fallen(game_type) ==
    IF game_type = "Collection"
    THEN {Run(GameState_with_condition(start_game_condition(game_type), << >>),
              CollectionFall)}
    ELSE {Run(GameState_with_condition(start_game_condition(game_type), CrowdedDraw),
              SurvivalFall)}

InitModes ==
    /\ \E game_type \in {"TreasureHunt", "Survival", "Collection"} :
          /\ condition = start_game_condition(game_type)
          /\ \E s \in IF game_type = "TreasureHunt" THEN Opened
                       ELSE { GameState_with_condition(condition, found) :
                                found \in { d \in SurvivalDraws :
                                    CanBeFound(GameWorld_new(Width, Height), d) } }
                            \cup Fallen(game_type) :
                /\ player = s.player
                /\ world = s.world
                /\ npcs = s.npcs
                /\ log_messages = s.log_messages
    /\ last = [op |-> "new"]
    /\ appended = << >>
    /\ steps = 0
    /\ dialog_state = "NoDialog"

SpecModes == InitModes /\ [][Next]_vars

(***************************************************************************)
(* The specification of the grid: a world of each size is generated,       *)
(* generated again, and asked about tiles inside and outside of it.        *)
(***************************************************************************)
InitGrid ==
    /\ \/ \E w \in 0..Width, h \in 0..Height : world = GameWorld_new(w, h)
       \/ world = GameWorld_default
    /\ player = Player_default
    /\ npcs = << >>
    /\ log_messages = << >>
    /\ condition = TreasureHuntCondition
    /\ last = [op |-> "new"]
    /\ appended = << >>
    /\ steps = 0
    /\ dialog_state = "NoDialog"

GenerateSimpleRoom ==
    /\ steps < MaxSteps
    /\ world' = regenerate(world)
    /\ last' = [op |-> "generate_simple_room", before |-> world.tiles]
    /\ steps' = steps + 1
    /\ UNCHANGED <<player, npcs, log_messages, condition, appended, dialog_state>>

\* the coordinates asked about: around the bounded room, and around the far
\* corner of the world at hand
ProbeXs == (-2..(Width + 1)) \cup {world.size[1] - 1, world.size[1]}
ProbeYs == (-2..(Height + 1)) \cup {world.size[2] - 1, world.size[2]}

QueryTile ==
    /\ last.op # "query"
    /\ \E x \in ProbeXs, y \in ProbeYs :
          last' = [op |-> "query", x |-> x, y |-> y,
                   tile |-> get_tile(world, x, y),
                   walkable |-> is_walkable(world, x, y),
                   valid |-> is_valid_position(world, x, y)]
    /\ UNCHANGED <<player, world, npcs, log_messages, condition, appended, steps, dialog_state>>

NextGrid == GenerateSimpleRoom \/ QueryTile

SpecGrid == InitGrid /\ [][NextGrid]_vars

(***************************************************************************)
(* RoguelikeApp (main.rs).  An app is [game_state, dialog_state];          *)
(* game_state is << >> (Option::None) or << [s, condition] >>.  A frame    *)
(* is one call of update: handle_input, the status check, and the dialog   *)
(* of the frame with the button clicked in it.  W, S, A and D are read     *)
(* wherever the arrows are and stand for them.                             *)
(***************************************************************************)
DialogStates ==
    {"NoDialog", "GameTypeSelection", "QuitConfirmation", "UseItem", "GameOver",
     "Victory"}

Keys == {"Up", "Down", "Left", "Right", "P", "U", "Q"}

GameTypes == {"TreasureHunt", "Survival", "Collection"}

RoguelikeApp_new == [game_state |-> << >>, dialog_state |-> "GameTypeSelection"]

Game(s, cond) == [s |-> s, condition |-> cond]

\* the clicks of a frame
NoClick == [button |-> "None"]
Play(game_type) == [button |-> "Play this mode", game_type |-> game_type]
ItemButton(index) == [button |-> "item", index |-> index]
No == [button |-> "No"]
Cancel == [button |-> "Cancel"]

\* the calls on the game state a frame makes, in order
Called(name) == [call |-> name]
CalledMove(dx, dy) == [call |-> "try_move_player", dx |-> dx, dy |-> dy]

\* dx and dy as the four tests of handle_input leave them
key_delta(keys) ==
    << IF "Right" \in keys THEN 1 ELSE IF "Left" \in keys THEN -1 ELSE 0,
       IF "Down" \in keys THEN 1 ELSE IF "Up" \in keys THEN -1 ELSE 0 >>

\* the commands of handle_input, the game at hand and no dialog shown: the
\* set of [s, calls, dialog_state] the draws of the frame can lead to
handle_commands(s, keys) ==
    LET d == key_delta(keys)
        \* the damage is drawn when the move runs into an Orc, and only then
        damages == IF \E i \in 1..Len(s.npcs) :
                         /\ s.npcs[i].npc_type = "Orc"
                         /\ s.npcs[i].position = <<s.player.position[1] + d[1],
                                                   s.player.position[2] + d[2]>>
                   THEN MinOrcDamage..MaxOrcDamage
                   ELSE {MinOrcDamage}
        moved == IF d # <<0, 0>>
                 THEN { [s |-> try_move_player(s, d[1], d[2], damage).state,
                         calls |-> << CalledMove(d[1], d[2]) >>]
                        : damage \in damages }
                 ELSE { [s |-> s, calls |-> << >>] }
        picked == { IF "P" \in keys
                    THEN [s |-> try_pickup_item(m.s),
                          calls |-> Append(m.calls, Called("try_pickup_item"))]
                    ELSE m
                    : m \in moved }
        opens(p) == "U" \in keys /\ p.s.player.inventory # << >>
        asked == { IF "U" \in keys /\ ~opens(p)
                   THEN [s |-> log(p.s, "You have no items to use."),
                         calls |-> p.calls, dialog_state |-> "NoDialog"]
                   ELSE [s |-> p.s, calls |-> p.calls,
                         dialog_state |-> IF opens(p) THEN "UseItem" ELSE "NoDialog"]
                   : p \in picked }
        player_acted == d # <<0, 0>> \/ "P" \in keys \/ "U" \in keys
    IN  IF player_acted
        THEN UNION { { [s |-> t,
                        calls |-> Append(a.calls, Called("process_npc_actions")),
                        dialog_state |-> a.dialog_state]
                       : t \in process_npc_actions(a.s) }
                     : a \in asked }
        ELSE asked

\* the set of [app, calls] handle_input can lead to
handle_input(app, keys) ==
    LET noticed ==
            IF app.game_state # << >> /\ ~is_alive(app.game_state[1].s.player)
            THEN << [app.game_state[1] EXCEPT
                        !.s = log(@, "Your character has met its end...")] >>
            ELSE app.game_state
    IN  IF "Q" \in keys
        THEN { [app |-> [game_state |-> noticed, dialog_state |-> "QuitConfirmation"],
                calls |-> << >>] }
        ELSE IF app.dialog_state = "NoDialog" /\ noticed # << >>
        THEN { [app |-> [game_state |-> << Game(h.s, noticed[1].condition) >>,
                         dialog_state |-> h.dialog_state],
                calls |-> h.calls]
               : h \in handle_commands(noticed[1].s, keys) }
        ELSE { [app |-> [game_state |-> noticed, dialog_state |-> app.dialog_state],
                calls |-> << >>] }

\* the status check of update
observe_status(app) ==
    IF app.dialog_state = "NoDialog" /\ app.game_state # << >>
    THEN LET status == check_game_status(app.game_state[1].condition,
                                         app.game_state[1].s)
         IN  CASE status = "Lost" -> [app EXCEPT !.dialog_state = "GameOver"]
               [] status = "Won" -> [app EXCEPT !.dialog_state = "Victory"]
               [] OTHER -> app
    ELSE app

\* found is what the calls of find_random_position return (Survival only)
start_game_with_type(app, game_type, found) ==
    [game_state |-> << Game(GameState_with_condition(start_game_condition(game_type),
                                                     found),
                            start_game_condition(game_type)) >>,
     dialog_state |-> "NoDialog"]

\* the item button of the use-item dialog: the item is used, the NPCs act
show_use_item_dialog_window(app, clicked) ==
    LET g == app.game_state[1]
    IN  IF clicked = Cancel
        THEN { [app |-> [app EXCEPT !.dialog_state = "NoDialog"], calls |-> << >>] }
        ELSE IF clicked.button = "item"
        THEN { [app |-> [game_state |-> << Game(t, g.condition) >>,
                         dialog_state |-> "NoDialog"],
                calls |-> << Called("use_item"), Called("process_npc_actions") >>]
               : t \in process_npc_actions(use_item_at(g.s, clicked.index)) }
        ELSE { [app |-> app, calls |-> << >>] }

\* the buttons of the dialog a frame shows that leave the window open
buttons(app) ==
    CASE app.dialog_state = "GameTypeSelection" -> {Play(game_type) : game_type \in GameTypes}
      [] app.dialog_state = "QuitConfirmation" -> {No}
      [] app.dialog_state = "UseItem" /\ app.game_state # << >> ->
            {Cancel} \cup {ItemButton(index) :
                             index \in 1..Len(app.game_state[1].s.player.inventory)}
      [] OTHER -> {}

\* the dialog of the frame
show_dialog(app, clicked, found) ==
    IF clicked \notin buttons(app)
    THEN { [app |-> app, calls |-> << >>] }
    ELSE CASE app.dialog_state = "GameTypeSelection" ->
                { [app |-> start_game_with_type(app, clicked.game_type, found),
                   calls |-> << >>] }
           [] app.dialog_state = "QuitConfirmation" ->
                { [app |-> [app EXCEPT !.dialog_state = "NoDialog"], calls |-> << >>] }
           [] app.dialog_state = "UseItem" -> show_use_item_dialog_window(app, clicked)

\* one frame: the set of [app, calls, shown] it can end in, shown being the
\* app as the dialog of the frame found it
update(app, keys, clicked, found) ==
    UNION { { [app |-> dialog.app, calls |-> h.calls \o dialog.calls,
               shown |-> observe_status(h.app)]
              : dialog \in show_dialog(observe_status(h.app), clicked, found) }
            : h \in handle_input(app, keys) }

(***************************************************************************)
(* Sessions in progress.  A session is an app and whether GameOver or      *)
(* Victory has been shown in it; it is played frame by frame from the app  *)
(* as constructed, each frame with its keys, its click, and the draws that *)
(* leave the merchant where it is and cost the player lost health.         *)
(***************************************************************************)
Ended == {"GameOver", "Victory"}

NoDraws == << >>

Session(app, observed) == [app |-> app, observed |-> observed]

Frame(keys, clicked, lost) == [keys |-> keys, clicked |-> clicked, lost |-> lost]

PlayFrame(o, f) ==
    LET quiet(r) ==
            \/ o.app.game_state = << >>
            \/ /\ MerchantOf(r.app.game_state[1].s).position
                      = MerchantOf(o.app.game_state[1].s).position
               /\ r.app.game_state[1].s.player.health
                      = Max(o.app.game_state[1].s.player.health - f.lost, 0)
        r == CHOOSE r \in update(o.app, f.keys, f.clicked, NoDraws) : quiet(r)
    IN  Session(r.app, o.observed \/ r.app.dialog_state \in Ended)

RECURSIVE PlayFrames(_, _)
PlayFrames(o, script) ==
    IF script = << >> THEN o ELSE PlayFrames(PlayFrame(o, Head(script)), Tail(script))

Press(key, lost) == Frame({key}, NoClick, lost)
Click(button, lost) == Frame({}, button, lost)

Constructed == Session(RoguelikeApp_new, FALSE)

\* a TreasureHunt game chosen
SessionStarted == PlayFrames(Constructed, << Click(Play("TreasureHunt"), 0) >>)

\* the chest and the skeleton's key collected, the orc striking on every turn
SessionChestKey ==
    PlayFrames(SessionStarted,
               << Press("Right", MinOrcDamage), Press("Down", MinOrcDamage),
                  Press("P", MinOrcDamage), Press("Up", MinOrcDamage),
                  Press("Right", MinOrcDamage), Press("Right", MinOrcDamage),
                  Press("P", MinOrcDamage) >>)

\* ... the use-item dialog opened
SessionUseItem == PlayFrames(SessionChestKey, << Press("U", MinOrcDamage) >>)

\* ... the key used on the chest
SessionTreasure == PlayFrames(SessionUseItem, << Click(ItemButton(2), MinOrcDamage) >>)

\* ... the treasure picked up: Victory
SessionVictory == PlayFrames(SessionTreasure, << Press("P", MinOrcDamage) >>)

\* the player waits for the orc and lets it strike until GameOver
SessionGameOver ==
    PlayFrames(SessionStarted,
               << Press("P", 0), Press("P", MaxOrcDamage), Press("P", MaxOrcDamage),
                  Press("P", MaxOrcDamage), Press("P", MaxOrcDamage),
                  Press("P", MaxOrcDamage) >>)

\* Q pressed on a dialog, and the quit declined
Quitting(o) == PlayFrames(o, << Press("Q", 0) >>)
QuitDeclined(o) == PlayFrames(o, << Press("Q", 0), Click(No, 0) >>)

Sessions ==
    {Constructed, SessionStarted, SessionChestKey, SessionUseItem, SessionTreasure,
     SessionVictory, SessionGameOver,
     Quitting(Constructed), Quitting(SessionStarted), Quitting(SessionVictory), Quitting(SessionGameOver),
     QuitDeclined(SessionVictory), QuitDeclined(SessionGameOver)}

(***************************************************************************)
(* The specification of the app: frames of update, with every set of keys  *)
(* pressed and every button of the dialog shown clicked, from a session in *)
(* progress.  While game_state is None the game variables hold a blank     *)
(* game and condition is NoCondition.                                      *)
(***************************************************************************)
NoCondition == [kind |-> "None", target_turns |-> 0, required_items |-> << >>]

\* the clicks of a frame: a button is clicked where the frame before drew it,
\* and counts when the dialog of this frame still shows it
Clicks(app) == {NoClick} \cup buttons(app)

\* the app the variables hold
App ==
    [game_state |-> IF condition = NoCondition THEN << >>
                    ELSE << Game(GS, condition) >>,
     dialog_state |-> dialog_state]

InitApp ==
    /\ \E o \in Sessions :
          /\ dialog_state = o.app.dialog_state
          /\ IF o.app.game_state = << >>
             THEN /\ player = Player_default
                  /\ world = GameWorld_new(0, 0)
                  /\ npcs = << >>
                  /\ log_messages = << >>
                  /\ condition = NoCondition
             ELSE /\ player = o.app.game_state[1].s.player
                  /\ world = o.app.game_state[1].s.world
                  /\ npcs = o.app.game_state[1].s.npcs
                  /\ log_messages = o.app.game_state[1].s.log_messages
                  /\ condition = o.app.game_state[1].condition
          /\ last = [op |-> "new", calls |-> << >>, observed |-> o.observed]
    /\ appended = << >>
    /\ steps = 0

Update ==
    /\ steps < MaxSteps
    /\ \E keys \in {pressed \in SUBSET Keys : Cardinality(pressed) <= MaxKeys} :
       \E clicked \in Clicks(App) :
       \E found \in IF clicked = Play("Survival")
                    THEN {d \in SurvivalDraws : CanBeFound(GameWorld_new(Width, Height), d)}
                    ELSE {NoDraws} :
       \E app \in {App} :
       \E r \in update(app, keys, clicked, found) :
          /\ clicked = NoClick \/ clicked \in buttons(r.shown)
          /\ dialog_state' = r.app.dialog_state
          /\ IF r.app.game_state = << >>
             THEN UNCHANGED <<player, world, npcs, log_messages, condition>>
             ELSE /\ Become(r.app.game_state[1].s)
                  /\ condition' = r.app.game_state[1].condition
          /\ last' = [op |-> "update", keys |-> keys, clicked |-> clicked,
                      calls |-> r.calls, shown |-> r.shown.dialog_state,
                      observed |-> last.observed \/ r.app.dialog_state \in Ended]
    /\ steps' = steps + 1
    /\ UNCHANGED appended

NextApp == Update

SpecApp == InitApp /\ [][NextApp]_vars

(***************************************************************************)
(* Properties.                                                             *)
(***************************************************************************)

\* new is old with message pushed, the oldest entry evicted once the cap is passed
Logged(old, new, message) ==
    new = IF Len(old) < MaxLogMessages
          THEN Append(old, message)
          ELSE Append(Tail(old), message)

\* seq without the entries at the indices in S, the others in their order
Without(seq, S) ==
    LET F[k \in 0..Len(seq)] ==
            IF k = 0 THEN << >>
            ELSE IF k \in S THEN F[k - 1]
            ELSE Append(F[k - 1], seq[k])
    IN  F[Len(seq)]

LastOf(seq) == seq[Len(seq)]

\* the step is a call of try_move_player
IsMove == last'.op = "try_move_player"

\* the tile the move of the step aims at
Target == <<player.position[1] + last'.dx, player.position[2] + last'.dy>>

Enterable(pos) ==
    /\ is_valid_position(world, pos[1], pos[2])
    /\ is_walkable(world, pos[1], pos[2])

Occupied(pos) == \E i \in 1..Len(npcs) : npcs[i].position = pos

\* the step is a click on the inventory button of the use-item dialog
IsUse == last'.op = "use_item"

HasChest(inventory) ==
    \E j \in 1..Len(inventory) : inventory[j].item_type = "TreasureChest"

\* C1: a move onto a tile that is out of bounds or not walkable returns false,
\* appends exactly the entry "Can't move there!" and leaves the player (position,
\* health, inventory), the NPCs and the world (items included) as they were.
C1_RejectedMoveChangesNothing ==
    [][ (IsMove /\ ~Enterable(Target)) =>
            /\ last'.ret = FALSE
            /\ Logged(log_messages, log_messages', "Can't move there!")
            /\ player' = player
            /\ npcs' = npcs
            /\ world' = world ]_vars

C1_Witness ==
    /\ last.op = "try_move_player"
    /\ last.ret = FALSE
    /\ last.hit = "None"
    /\ LastOf(log_messages) = "Can't move there!"

\* C2: a move onto a walkable tile an NPC stands on leaves the player where it
\* was and returns false, whatever the NPC and whatever its interaction yields.
C2_CollisionDoesNotMove ==
    [][ (IsMove /\ Enterable(Target) /\ Occupied(Target)) =>
            /\ player'.position = player.position
            /\ last'.ret = FALSE ]_vars

C2_Witness ==
    /\ last.op = "try_move_player"
    /\ last.hit = "Orc"
    /\ last.ret = FALSE
    /\ \E i \in 1..Len(npcs) :
          /\ npcs[i].npc_type = "Orc"
          /\ npcs[i].position = <<player.position[1] + last.dx,
                                  player.position[2] + last.dy>>

\* C3: running into a Skeleton takes that Skeleton, and no other NPC, out of the
\* NPC collection and adds exactly one WorldItem, a Key on the Skeleton's tile,
\* after the world items there were.
C3_SkeletonLeavesKey ==
    [][ (/\ IsMove
         /\ Enterable(Target)
         /\ \E i \in 1..Len(npcs) :
               npcs[i].position = Target /\ npcs[i].npc_type = "Skeleton") =>
            /\ Len(npcs') = Len(npcs) - 1
            /\ npcs' = SelectSeq(npcs, LAMBDA n : n.position # Target)
            /\ Len(world'.items) = Len(world.items) + 1
            /\ SubSeq(world'.items, 1, Len(world.items)) = world.items
            /\ LastOf(world'.items).position = Target
            /\ LastOf(world'.items).item.item_type = "Key" ]_vars

C3_Witness ==
    /\ last.op = "try_move_player"
    /\ last.hit = "Skeleton"
    /\ \A i \in 1..Len(npcs) : npcs[i].npc_type # "Skeleton"
    /\ Len(world.items) > 0
    /\ LastOf(world.items).item.item_type = "Key"
    /\ LastOf(world.items).position = <<player.position[1] + last.dx,
                                        player.position[2] + last.dy>>

\* C4: the player's health is never below 0 nor above max_health, and the
\* player is alive exactly when its health is above 0.
C4_HealthInRange ==
    /\ 0 <= player.health
    /\ player.health <= player.max_health
    /\ is_alive(player) <=> player.health > 0

\* an orc's blow of 20 brings the 12 health left by a blow of 8 to 0, not below
C4_Witness ==
    /\ last.op = "process_npc_actions"
    /\ player.health = 0
    /\ Len(log_messages) >= 2
    /\ LastOf(log_messages) = "The orc Orc Warrior attacks you for 20 damage!"
    /\ log_messages[Len(log_messages) - 1] = "Orc Warrior attacks you for 8 damage!"

\* C5: in each mode check_status answers Lost when the player's health is 0,
\* whether or not the mode's win predicate holds.
C5_LostTakesPrecedence ==
    (last.op = "check_status" /\ player.health = 0) => last.ret = "Lost"

WinPredicate ==
    CASE condition.kind = "TreasureHunt" ->
            \E i \in 1..Len(player.inventory) : player.inventory[i].item_type = "Treasure"
      [] condition.kind = "Survival" -> Len(log_messages) >= condition.target_turns
      [] condition.kind = "Collection" ->
            \A k \in 1..Len(condition.required_items) :
                CountType(player.inventory, condition.required_items[k][1])
                    >= condition.required_items[k][2]

C5_Witness ==
    /\ last.op = "check_status"
    /\ last.ret = "Lost"
    /\ player.health = 0
    /\ condition.kind = "Collection"
    /\ WinPredicate

\* C6: the log never holds more than 50 entries and is always the last
\* min(n, 50) of the n messages appended so far, in the order of appending.
C6_LogKeepsNewest ==
    LET n == Len(appended)
    IN  /\ Len(log_messages) <= 50
        /\ Len(log_messages) = Min(n, 50)
        /\ \A k \in 1..Len(log_messages) :
              log_messages[k] = appended[n - Len(log_messages) + k]

\* 60 appends to the empty log: entries 11..60 are left
C6_Witness ==
    /\ Len(appended) = 60
    /\ appended[1] = "message 1"
    /\ log_messages[1] = "message 11"
    /\ log_messages[50] = "message 60"

\* C7: a pickup with an item on the player's tile takes exactly one such item
\* out of the world, appends it to the inventory and logs "You picked up
\* {label}."; with none there, world items and inventory stay and "There is
\* nothing here to pick up." is logged.  Position, health and NPCs stay.
C7_Pickup ==
    [][ last'.op = "try_pickup_item" =>
            LET here == {i \in 1..Len(world.items) :
                            world.items[i].position = player.position}
            IN  /\ IF here # {}
                   THEN \E i \in here :
                          /\ world'.items = Without(world.items, {i})
                          /\ player'.inventory =
                                Append(player.inventory, world.items[i].item)
                          /\ Logged(log_messages, log_messages',
                                    "You picked up " \o world.items[i].item.label \o ".")
                   ELSE /\ world'.items = world.items
                        /\ player'.inventory = player.inventory
                        /\ Logged(log_messages, log_messages',
                                  "There is nothing here to pick up.")
                /\ player'.position = player.position
                /\ player'.health = player.health
                /\ npcs' = npcs ]_vars

C7_Witness ==
    /\ last.op = "try_pickup_item"
    /\ LastOf(log_messages) = "You picked up Bone Key."
    /\ Len(player.inventory) = 2
    /\ player.inventory[1].item_type = "TreasureChest"
    /\ player.inventory[2].item_type = "Key"
    /\ world.items = << >>

\* C8: using a Key with a TreasureChest in the inventory takes the key and
\* exactly one TreasureChest out of the inventory, the other entries keeping
\* their order, and adds exactly one WorldItem, a Treasure on the player's tile.
C8_KeyOpensChest ==
    [][ (/\ IsUse
         /\ player.inventory[last'.index].item_type = "Key"
         /\ HasChest(player.inventory)) =>
            /\ \E j \in 1..Len(player.inventory) :
                  /\ player.inventory[j].item_type = "TreasureChest"
                  /\ player'.inventory = Without(player.inventory, {last'.index, j})
            /\ Len(world'.items) = Len(world.items) + 1
            /\ SubSeq(world'.items, 1, Len(world.items)) = world.items
            /\ LastOf(world'.items).position = player.position
            /\ LastOf(world'.items).item.item_type = "Treasure"
            /\ player'.position = player.position ]_vars

C8_Witness ==
    /\ last.op = "use_item"
    /\ last.item_type = "Key"
    /\ Len(player.inventory) = 2
    /\ player.inventory[1].item_type = "Gem"
    /\ player.inventory[2].item_type = "Scroll"
    /\ Len(world.items) > 0
    /\ LastOf(world.items).item.item_type = "Treasure"
    /\ LastOf(world.items).position = player.position

\* C9: using a Key with no TreasureChest in the inventory consumes the key:
\* the inventory is the old one without it, no WorldItem is added and the
\* failure message is logged.
C9_KeyWithoutChestIsConsumed ==
    [][ (/\ IsUse
         /\ player.inventory[last'.index].item_type = "Key"
         /\ ~HasChest(player.inventory)) =>
            /\ player'.inventory = Without(player.inventory, {last'.index})
            /\ world' = world
            /\ Logged(log_messages, log_messages',
                      "You used " \o player.inventory[last'.index].label
                          \o ", but you need a treasure chest to unlock.") ]_vars

C9_Witness ==
    /\ last.op = "use_item"
    /\ last.item_type = "Key"
    /\ player.inventory = << >>
    /\ LastOf(log_messages) = "You used Bone Key, but you need a treasure chest to unlock."

\* C10: using an item that is no Key logs the no-effect message and consumes
\* the item: the inventory is the old one without it, no WorldItem is created
\* and the player's health and position and the NPCs stay.
C10_OtherItemIsConsumed ==
    [][ (IsUse /\ player.inventory[last'.index].item_type # "Key") =>
            /\ player'.inventory = Without(player.inventory, {last'.index})
            /\ world' = world
            /\ player'.health = player.health
            /\ player'.position = player.position
            /\ npcs' = npcs
            /\ Logged(log_messages, log_messages',
                      "You used " \o player.inventory[last'.index].label
                          \o ", but nothing happens.") ]_vars

C10_Witness ==
    /\ last.op = "use_item"
    /\ last.item_type = "Gem"
    /\ Len(player.inventory) = 3
    /\ player.inventory[1].item_type = "TreasureChest"
    /\ LastOf(log_messages) = "You used Precious Gem, but nothing happens."

\* the number of entries of inventory whose type is item_type
Holding(inventory, item_type) ==
    Len(SelectSeq(inventory, LAMBDA it : it.item_type = item_type))

\* C11: in TreasureHunt mode with the player alive, check_status answers Won
\* exactly when the inventory holds an item of type Treasure and Playing
\* otherwise; a chest in the inventory or a treasure on the ground does not count.
C11_TreasureHuntWonIffTreasureHeld ==
    (last.op = "check_status" /\ condition.kind = "TreasureHunt" /\ player.health > 0) =>
        last.ret = IF Holding(player.inventory, "Treasure") >= 1 THEN "Won" ELSE "Playing"

C11_Witness ==
    /\ last.op = "check_status"
    /\ condition.kind = "TreasureHunt"
    /\ player.health > 0
    /\ Holding(player.inventory, "TreasureChest") = 1
    /\ Holding(player.inventory, "Treasure") = 0
    /\ \E i \in 1..Len(world.items) :
          /\ world.items[i].item.item_type = "Treasure"
          /\ world.items[i].position = player.position
    /\ last.ret = "Playing"

\* C13: in Collection mode with the player alive, check_status answers Won
\* exactly when every required (item_type, count) pair is met by the inventory,
\* and Playing otherwise; with (Gem,3),(Scroll,2),(Potion,1) two gems alone give
\* Playing and at least 3 gems, 2 scrolls and 1 potion give Won.
C13_CollectionWonIffAllMet ==
    (last.op = "check_status" /\ condition.kind = "Collection" /\ player.health > 0) =>
        /\ last.ret =
              IF \A k \in 1..Len(condition.required_items) :
                     Holding(player.inventory, condition.required_items[k][1])
                         >= condition.required_items[k][2]
              THEN "Won" ELSE "Playing"
        /\ condition.required_items = << <<"Gem", 3>>, <<"Scroll", 2>>, <<"Potion", 1>> >> =>
              /\ player.inventory = << Gem, Gem >> => last.ret = "Playing"
              /\ (/\ Holding(player.inventory, "Gem") >= 3
                  /\ Holding(player.inventory, "Scroll") >= 2
                  /\ Holding(player.inventory, "Potion") >= 1) => last.ret = "Won"

C13_Witness ==
    /\ last.op = "check_status"
    /\ condition = start_game_condition("Collection")
    /\ player.health > 0
    /\ Holding(player.inventory, "Gem") = 4
    /\ Holding(player.inventory, "Scroll") = 2
    /\ Holding(player.inventory, "Potion") = 1
    /\ last.ret = "Won"

\* C12: in Survival mode with the player alive, check_status answers Won
\* exactly when the number of messages ever appended to the log is at least
\* target_turns, whatever target_turns is, above the cap of the log included.
C12_SurvivalWonIffRecorded ==
    (last.op = "check_status" /\ condition.kind = "Survival" /\ player.health > 0) =>
        last.ret = IF Len(appended) >= condition.target_turns THEN "Won" ELSE "Playing"

\* the type of the item try_pickup_item would take, "None" on a bare tile
Underfoot ==
    LET here == SelectSeq(world.items, LAMBDA wi : wi.position = player.position)
    IN  IF here = << >> THEN "None" ELSE here[1].item.item_type

\* C14: the winning scenario of a TreasureHunt game.  Picking up the chest with
\* none in hand leaves exactly one TreasureChest in the inventory; using a Key
\* with the chest in hand removes the chest and puts a Treasure on the player's
\* tile; picking that up puts the Treasure in the inventory; and check_status
\* on a living player holding it answers Won.
C14_WinningScenario ==
    [][ /\ (/\ last'.op = "try_pickup_item"
            /\ Underfoot = "TreasureChest"
            /\ Holding(player.inventory, "TreasureChest") = 0) =>
               Holding(player'.inventory, "TreasureChest") = 1
        /\ (/\ IsUse
            /\ last'.item_type = "Key"
            /\ Holding(player.inventory, "TreasureChest") = 1) =>
               /\ Holding(player'.inventory, "TreasureChest") = 0
               /\ Holding(player'.inventory, "Key") = Holding(player.inventory, "Key") - 1
               /\ \E i \in 1..Len(world'.items) :
                     /\ world'.items[i].item.item_type = "Treasure"
                     /\ world'.items[i].position = player'.position
        /\ (last'.op = "try_pickup_item" /\ Underfoot = "Treasure") =>
               Holding(player'.inventory, "Treasure")
                   = Holding(player.inventory, "Treasure") + 1
        /\ (/\ last'.op = "check_status"
            /\ condition.kind = "TreasureHunt"
            /\ player.health > 0
            /\ Holding(player.inventory, "Treasure") >= 1) =>
               last'.ret = "Won" ]_vars

\* the whole scenario, from the new game on, as the log tells it
C14_Witness ==
    /\ last.op = "check_status"
    /\ last.ret = "Won"
    /\ condition = TreasureHuntCondition
    /\ player.inventory = << Treasure >>
    /\ log_messages = WelcomeLog \o
          << "Moved to (2, 3)",
             "You picked up Treasure Chest.",
             "The skeleton collapses to a pile of bones",
             "Moved to (3, 2)",
             "You picked up Bone Key.",
             "When the key clicks in the lock the treasure chest spills open, dropping a pile of treasure on the ground",
             "You picked up Pile of Treasure." >>

\* C15: in every mode, from setup_world on and after every operation of the
\* player and every pass of the NPCs, no two NPCs stand on the same tile and no
\* NPC stands on the player's tile.
C15_NoSharedTile ==
    /\ \A i, j \in 1..Len(npcs) : i # j => npcs[i].position # npcs[j].position
    /\ \A i \in 1..Len(npcs) : npcs[i].position # player.position

\* a pass of five orcs: the first strikes, the second is held up behind it, the
\* last closes in
C15_Witness ==
    /\ condition.kind = "Survival"
    /\ last.op = "process_npc_actions"
    /\ Len(npcs) = 5
    /\ player.position = <<1, 2>>
    /\ player.health < DefaultHealth
    /\ npcs[1].position = <<2, 2>>
    /\ npcs[2].position = <<3, 2>>
    /\ npcs[5].position = <<4, 2>>

\* the tile the layout rule puts at (x, y) of a grid of w by h
RuleTile(w, h, x, y) ==
    IF x = 0 \/ x = w - 1 \/ y = 0 \/ y = h - 1 THEN "Wall"
    ELSE IF (x + y) % 7 = 0 THEN "Floor"
    ELSE "Empty"

\* C16: for every width and height, every border cell is Wall, every other
\* cell with (x + y) mod 7 = 0 is Floor and every remaining cell is Empty, for
\* GameWorld::new and GameWorld::default alike; generating an existing world
\* again leaves its grid as it was.
C16_GridIsTheRule ==
    /\ DOMAIN world.tiles = 0..(world.size[1] - 1)
    /\ \A x \in 0..(world.size[1] - 1) :
          /\ DOMAIN world.tiles[x] = 0..(world.size[2] - 1)
          /\ \A y \in 0..(world.size[2] - 1) :
                world.tiles[x][y] = RuleTile(world.size[1], world.size[2], x, y)
    /\ last.op = "generate_simple_room" => world.tiles = last.before

C16_Witness ==
    /\ last.op = "generate_simple_room"
    /\ world.size = <<Width, Height>>
    /\ world.tiles = last.before
    /\ world.tiles[0][0] = "Wall"
    /\ world.tiles[Width - 1][1] = "Wall"
    /\ world.tiles[4][3] = "Floor"
    /\ world.tiles[1][1] = "Empty"

\* C17: is_walkable(x, y) is true exactly when (x, y) is in bounds and its tile
\* is Floor, Door or Empty; it is false on a Wall, on every border cell of a
\* generated grid and out of bounds (negative coordinates included), where
\* get_tile answers None and is_valid_position false.
C17_WalkableIffOpenTile ==
    last.op = "query" =>
        LET x == last.x
            y == last.y
            inside == /\ 0 <= x /\ x < world.size[1]
                      /\ 0 <= y /\ y < world.size[2]
            border == \/ x = 0 \/ x = world.size[1] - 1
                      \/ y = 0 \/ y = world.size[2] - 1
        IN  /\ last.valid = inside
            /\ last.tile = IF inside THEN world.tiles[x][y] ELSE "None"
            /\ last.walkable = (inside /\ world.tiles[x][y] \in {"Floor", "Door", "Empty"})
            /\ (inside /\ border) => ~last.walkable
            /\ ~inside => (~last.walkable /\ last.tile = "None" /\ ~last.valid)
            /\ inside =>
                  \A tile \in TileTypes :
                      is_walkable([world EXCEPT !.tiles[x][y] = tile], x, y)
                          = (tile \in {"Floor", "Door", "Empty"})

C17_Witness ==
    /\ last.op = "query"
    /\ last.x = -1
    /\ last.y = 1
    /\ world.size = <<Width, Height>>
    /\ ~last.walkable
    /\ last.tile = "None"
    /\ ~last.valid

\* C18: a move onto a tile that is in bounds, walkable and free of NPCs puts the
\* player on it, appends exactly "Moved to (x, y)" with the tile's coordinates,
\* returns true and leaves health, inventory, NPCs and world items as they were.
C18_FreeMoveSteps ==
    [][ (IsMove /\ Enterable(Target) /\ ~Occupied(Target)) =>
            /\ player'.position = Target
            /\ Logged(log_messages, log_messages',
                      "Moved to (" \o ToString(Target[1]) \o ", "
                          \o ToString(Target[2]) \o ")")
            /\ last'.ret = TRUE
            /\ player'.health = player.health
            /\ player'.inventory = player.inventory
            /\ npcs' = npcs
            /\ world' = world ]_vars

C18_Witness ==
    /\ last.op = "try_move_player"
    /\ last.ret = TRUE
    /\ player.position = <<2, 3>>
    /\ LastOf(log_messages) = "Moved to (2, 3)"
    /\ Holding(player.inventory, "Key") = 1
    /\ Len(npcs) = 4

\* how many entries of seq equal e
Copies(seq, e) == Cardinality({k \in 1..Len(seq) : seq[k] = e})

\* C19: running into an Orc, a Goblin, a Merchant or a Guard leaves the NPC
\* collection with the same NPCs, each with its position, type and name, the
\* one run into among them, and adds no WorldItem; unless it is an Orc the
\* player's health stays as it was.
C19_CollisionKeepsNpc ==
    [][ \A i \in 1..Len(npcs) :
          (/\ IsMove
           /\ Enterable(Target)
           /\ npcs[i].position = Target
           /\ npcs[i].npc_type \in {"Orc", "Goblin", "Merchant", "Guard"}) =>
              /\ Len(npcs') = Len(npcs)
              /\ \A k \in 1..Len(npcs) : Copies(npcs', npcs[k]) = Copies(npcs, npcs[k])
              /\ Copies(npcs', npcs[i]) >= 1
              /\ world'.items = world.items
              /\ npcs[i].npc_type # "Orc" => player'.health = player.health ]_vars

C19_Witness ==
    /\ last.op = "try_move_player"
    /\ last.hit = "Merchant"
    /\ Len(npcs) = 5
    /\ LastOf(npcs).npc_type = "Merchant"
    /\ LastOf(npcs).position = <<player.position[1] + last.dx, player.position[2] + last.dy>>
    /\ player.health = DefaultHealth
    /\ LastOf(log_messages) = "You interact with The Merchant."

\* the orcs whose step towards the player lands on the player
Strikers ==
    {i \in 1..Len(npcs) :
        /\ npcs[i].npc_type = "Orc"
        /\ npcs[i].position # player.position
        /\ npcs[i].position[1] - player.position[1] \in -1..1
        /\ npcs[i].position[2] - player.position[2] \in -1..1}

\* health after a blow of some d in 5..20, message being what the log says of it
Struck(message(_)) ==
    \E d \in 5..20 :
        /\ player'.health = IF player.health - d > 0 THEN player.health - d ELSE 0
        /\ \E k \in 1..Len(log_messages') : log_messages'[k] = message(d)

\* C20: an Orc attack, by the player running into the Orc or on the Orc's own
\* turn, takes some d with 5 <= d <= 20 and leaves max(0, health - d); a single
\* attack lowers the health by at most 20 and by at least min(5, health).
C20_OrcBlow ==
    [][ /\ \A i \in 1..Len(npcs) :
              (/\ IsMove
               /\ Enterable(Target)
               /\ npcs[i].position = Target
               /\ npcs[i].npc_type = "Orc") =>
                  Struck(LAMBDA d : npcs[i].name \o " attacks you for "
                                        \o ToString(d) \o " damage!")
        /\ \A i \in 1..Len(npcs) :
              (last'.op = "process_npc_actions" /\ Strikers = {i}) =>
                  Struck(LAMBDA d : "The orc " \o npcs[i].name \o " attacks you for "
                                        \o ToString(d) \o " damage!")
        /\ (last'.op = "process_npc_actions" /\ Strikers = {}) =>
              player'.health = player.health
        /\ (\/ IsMove /\ Enterable(Target) /\ Occupied(Target)
            \/ last'.op = "process_npc_actions" /\ Cardinality(Strikers) <= 1) =>
              /\ player.health - player'.health <= 20
              /\ player'.health >= 0
              /\ (player'.health # player.health) =>
                    player.health - player'.health
                        >= (IF player.health < 5 THEN player.health ELSE 5) ]_vars

C20_Witness ==
    /\ last.op = "process_npc_actions"
    /\ player.health = DefaultHealth - MaxOrcDamage
    /\ LastOf(log_messages) = "The orc Orc Warrior attacks you for 20 damage!"

\* the calls of the frame just played that are game commands
Commands ==
    {k \in 1..Len(last.calls) :
        last.calls[k].call \in {"try_move_player", "try_pickup_item", "use_item",
                                "process_npc_actions"}}

\* C21: once GameOver or Victory has been shown, no later frame applies a move,
\* a pickup, an item use or an NPC pass to the game, whatever is pressed or
\* clicked in it.
C21_NoCommandAfterTheEnd ==
    [][ (last.observed /\ last'.op = "update") => last'.calls = << >> ]_vars

PlayerActions == {"try_move_player", "try_pickup_item", "use_item"}

\* C22: the NPC pass runs exactly once per player action that took a turn (a
\* move attempt, a pickup, an item use), right after it: every action of a
\* frame is followed by a pass, and every pass follows an action.
C22_OnePassPerAction ==
    [][ last'.op = "update" =>
          \A k \in 1..Len(last'.calls) :
              /\ last'.calls[k].call \in PlayerActions =>
                    /\ k < Len(last'.calls)
                    /\ last'.calls[k + 1].call = "process_npc_actions"
              /\ last'.calls[k].call = "process_npc_actions" =>
                    /\ k > 1
                    /\ last'.calls[k - 1].call \in PlayerActions ]_vars

Cardinal == {<<-1, 0>>, <<1, 0>>, <<0, -1>>, <<0, 1>>}

\* C23: every try_move_player of a frame is called with a cardinal (dx, dy),
\* never a diagonal and never (0, 0), whatever movement keys are pressed
\* together; the player's position changes by at most one cardinal step.
C23_MovesAreCardinal ==
    [][ last'.op = "update" =>
          /\ \A k \in 1..Len(last'.calls) :
                last'.calls[k].call = "try_move_player" =>
                    <<last'.calls[k].dx, last'.calls[k].dy>> \in Cardinal
          /\ condition # NoCondition =>
                \/ player'.position = player.position
                \/ <<player'.position[1] - player.position[1],
                     player'.position[2] - player.position[2]>> \in Cardinal ]_vars

\* C24: Survival setup_world places the player and each of the five orcs on a
\* walkable tile inside the border that no earlier placement took, falling back
\* to a fixed position when the attempts fail: the player and all five orcs
\* are always placed.
C24_AllPlaced ==
    condition.kind = "Survival" =>
        /\ Len(npcs) = 5
        /\ \A i \in 1..Len(npcs) :
              /\ npcs[i].npc_type = "Orc"
              /\ is_walkable(world, npcs[i].position[1], npcs[i].position[2])
              /\ npcs[i].position # player.position
              /\ \A j \in 1..Len(npcs) :
                    j # i => npcs[j].position # npcs[i].position
        /\ is_walkable(world, player.position[1], player.position[2])

\* the NPCs that walk at random on their turn: the merchants, and the orcs
\* farther than 5.0 from the player
Walks(cast, i) ==
    \/ cast[i].npc_type = "Merchant"
    \/ /\ cast[i].npc_type = "Orc"
       /\ (cast[i].position[1] - player.position[1])
              * (cast[i].position[1] - player.position[1])
          + (cast[i].position[2] - player.position[2])
              * (cast[i].position[2] - player.position[2]) > 25

\* C25: in its turn of a pass a random walker stays in place or moves exactly
\* one cardinal step, onto a tile that is in bounds, walkable, not the player's
\* and not occupied by any other NPC as they stand at that moment (those before
\* it in the list have acted, those after it have not).
C25_RandomWalkStep ==
    [][ last'.op = "process_npc_actions" =>
          /\ Len(npcs') = Len(npcs)
          /\ \A i \in 1..Len(npcs) :
                Walks(npcs, i) =>
                    \/ npcs'[i].position = npcs[i].position
                    \/ /\ <<npcs'[i].position[1] - npcs[i].position[1],
                            npcs'[i].position[2] - npcs[i].position[2]>> \in Cardinal
                       /\ npcs'[i].position[1] \in 0..(world.size[1] - 1)
                       /\ npcs'[i].position[2] \in 0..(world.size[2] - 1)
                       /\ world.tiles[npcs'[i].position[1]][npcs'[i].position[2]]
                              \in {"Floor", "Door", "Empty"}
                       /\ npcs'[i].position # player.position
                       /\ \A j \in 1..(i - 1) : npcs'[j].position # npcs'[i].position
                       /\ \A j \in (i + 1)..Len(npcs) :
                             npcs[j].position # npcs'[i].position ]_vars

\* a merchant and an orc out of sight have both stepped in one pass
C25_Witness ==
    /\ last.op = "process_npc_actions"
    /\ \E i, j \in 1..Len(npcs) :
          /\ npcs[i].npc_type = "Merchant"
          /\ npcs[j].npc_type = "Orc"
          /\ Walks(last.npcs_before, j)
          /\ <<npcs[i].position[1] - last.npcs_before[i].position[1],
               npcs[i].position[2] - last.npcs_before[i].position[2]>> \in Cardinal
          /\ <<npcs[j].position[1] - last.npcs_before[j].position[1],
               npcs[j].position[2] - last.npcs_before[j].position[2]>> \in Cardinal

\* the entries of items that lie elsewhere than on pos, in order
Elsewhere(items, pos) == SelectSeq(items, LAMBDA wi : wi.position # pos)

\* C26: when a Merchant moves onto a tile, every WorldItem that lay on that tile
\* is destroyed and named in the log: after the pass the world holds the items
\* of the other tiles, untouched and in order, and at most the one item the
\* merchant dropped after moving.
C26_MerchantCrushesAll ==
    [][ last'.op = "process_npc_actions" =>
          \A i \in 1..Len(npcs) :
              (/\ npcs[i].npc_type = "Merchant"
               /\ npcs'[i].position # npcs[i].position) =>
                  /\ Len(world'.items) >= Len(Elsewhere(world.items, npcs'[i].position))
                  /\ Len(world'.items)
                        <= Len(Elsewhere(world.items, npcs'[i].position)) + 1
                  /\ SubSeq(world'.items, 1,
                            Len(Elsewhere(world.items, npcs'[i].position)))
                        = Elsewhere(world.items, npcs'[i].position)
                  /\ \A k \in 1..Len(world.items) :
                        world.items[k].position = npcs'[i].position =>
                            \E m \in 1..Len(log_messages') :
                                log_messages'[m] =
                                    "The merchant and his cart destroyed the "
                                        \o world.items[k].item.label
                                        \o " on the ground!" ]_vars

\* the items a merchant's cart holds
CartItems ==
    { [item_type |-> "Gem", label |-> "Precious Gem"],
      [item_type |-> "Scroll", label |-> "Ancient Scroll"],
      [item_type |-> "Potion", label |-> "Magic Potion"] }

\* items as a pass can leave them when nothing is added: as they were, or less
\* one entry that lay on pos
Survivors(items, pos) ==
    {items} \cup {RemoveAt(items, k) : k \in {n \in 1..Len(items) : items[n].position = pos}}

\* C27: a Merchant's turn adds at most one WorldItem, only when the Merchant
\* has moved, at its new position, and of type Gem, Scroll or Potion with the
\* fixed label; a Merchant that stays adds and removes nothing.
C27_MerchantDrop ==
    [][ last'.op = "process_npc_actions" =>
          \A i \in 1..Len(npcs) :
              npcs[i].npc_type = "Merchant" =>
                  IF npcs'[i].position = npcs[i].position
                  THEN world'.items = world.items
                  ELSE \/ world'.items \in Survivors(world.items, npcs'[i].position)
                       \/ /\ world'.items # << >>
                          /\ SubSeq(world'.items, 1, Len(world'.items) - 1)
                                \in Survivors(world.items, npcs'[i].position)
                          /\ LastOf(world'.items).position = npcs'[i].position
                          /\ LastOf(world'.items).item \in CartItems ]_vars

\* the merchant has stepped and dropped a potion where it stands now
C27_Witness ==
    /\ last.op = "process_npc_actions"
    /\ \E i \in 1..Len(npcs) :
          /\ npcs[i].npc_type = "Merchant"
          /\ npcs[i].position # last.npcs_before[i].position
          /\ world.items # << >>
          /\ LastOf(world.items) =
                [position |-> npcs[i].position,
                 item |-> [item_type |-> "Potion", label |-> "Magic Potion"]]
    /\ \E m \in 1..Len(log_messages) :
          log_messages[m] = "The merchant dropped a Magic Potion from his cart!"

\* the last n entries of seq, all of them when it has fewer
Newest(seq, n) == SubSeq(seq, IF Len(seq) > n THEN Len(seq) - n + 1 ELSE 1, Len(seq))

\* new is old with the messages of added appended one by one
LoggedAll(old, new, added) == new = Newest(old \o added, 50)

\* the orcs within 5.0 of the player
InSight(cast, i) ==
    /\ cast[i].npc_type = "Orc"
    /\ (cast[i].position[1] - player.position[1])
           * (cast[i].position[1] - player.position[1])
       + (cast[i].position[2] - player.position[2])
           * (cast[i].position[2] - player.position[2]) <= 25

\* the tile one step from cast[i] towards the player, along both axes
Aim(cast, i) ==
    << cast[i].position[1]
         + (IF player.position[1] > cast[i].position[1] THEN 1
            ELSE IF player.position[1] < cast[i].position[1] THEN -1 ELSE 0),
       cast[i].position[2]
         + (IF player.position[2] > cast[i].position[2] THEN 1
            ELSE IF player.position[2] < cast[i].position[2] THEN -1 ELSE 0) >>

\* the orcs whose step would land on the player
Attackers == {i \in 1..Len(npcs) : InSight(npcs, i) /\ Aim(npcs, i) = player.position}

\* pos is open to npcs[i] when its turn comes in the pass being taken: in
\* bounds, walkable, and held by no NPC, those before it having acted
FreeAtTurn(i, pos) ==
    /\ pos[1] \in 0..(world.size[1] - 1)
    /\ pos[2] \in 0..(world.size[2] - 1)
    /\ world.tiles[pos[1]][pos[2]] \in {"Floor", "Door", "Empty"}
    /\ \A j \in 1..(i - 1) : npcs'[j].position # pos
    /\ \A j \in (i + 1)..Len(npcs) : npcs[j].position # pos

\* what the log says of a blow of d, after the orc's name
AttackText == [d \in 5..20 |-> " attacks you for " \o ToString(d) \o " damage!"]

\* the names the orcs of the three modes go by
OrcNames ==
    {orc_names[k] : k \in 1..Len(orc_names)}
        \cup {GameState_new.npcs[k].name : k \in 1..Len(GameState_new.npcs)}
        \cup {Collection_setup_world(GameState_new).npcs[k].name
                 : k \in 1..Len(Collection_setup_world(GameState_new).npcs)}

\* the whole entry of the log for a blow of d by the orc of that name
OrcAttackText == [name \in OrcNames |-> [d \in 5..20 |-> "The orc " \o name \o AttackText[d]]]

RECURSIVE Total(_, _)
Total(dmg, S) ==
    IF S = {} THEN 0
    ELSE LET i == CHOOSE i \in S : TRUE IN dmg[i] + Total(dmg, S \ {i})

\* C28: an Orc within 5.0 of the player aims at the tile one step towards the
\* player along both axes.  If that is the player's tile it attacks: it stays
\* where it is, the player loses some d in 5..20 (not below 0) and the attack
\* is logged with d.  Otherwise, if the tile is free, it moves exactly there,
\* diagonally or not, and deals no damage: only the attacks cost health.
C28_OrcInSight ==
    [][ last'.op = "process_npc_actions" =>
          /\ \A i \in 1..Len(npcs) :
                (/\ InSight(npcs, i)
                 /\ Aim(npcs, i) # player.position
                 /\ FreeAtTurn(i, Aim(npcs, i))) =>
                    npcs'[i].position = Aim(npcs, i)
          /\ \A i \in Attackers : npcs'[i].position = npcs[i].position
          /\ \E A \in {Attackers} :
             \E n \in Cardinality(A)..(Cardinality(A) + 2) :
                /\ n <= Len(log_messages')
                /\ \E added \in {Newest(log_messages', n)} :
                      /\ LoggedAll(log_messages, log_messages', added)
                      /\ \E blows \in {[i \in A |->
                                          {d \in 5..20 :
                                              \E k \in 1..n :
                                                  added[k] = OrcAttackText[npcs[i].name][d]}]} :
                            \E dmg \in [A -> UNION {blows[i] : i \in A}] :
                                /\ \A i \in A : dmg[i] \in blows[i]
                                /\ player'.health =
                                      IF player.health > Total(dmg, A)
                                      THEN player.health - Total(dmg, A)
                                      ELSE 0
          /\ player' = [player EXCEPT !.health = player'.health] ]_vars

\* one orc has struck for 20 from where it stands, another has stepped to the
\* tile it aimed at
C28_Witness ==
    /\ last.op = "process_npc_actions"
    /\ player.health = DefaultHealth - MaxOrcDamage
    /\ \E i, j \in 1..Len(npcs) :
          /\ InSight(last.npcs_before, i)
          /\ Aim(last.npcs_before, i) = player.position
          /\ npcs[i] = last.npcs_before[i]
          /\ LastOf(log_messages) =
                "The orc " \o npcs[i].name \o " attacks you for 20 damage!"
          /\ InSight(last.npcs_before, j)
          /\ npcs[j].position # last.npcs_before[j].position
          /\ npcs[j].position = Aim(last.npcs_before, j)

\* the in-sight orcs whose aimed tile is not the player's and is not open to
\* them when their turn comes
Barred == {i \in 1..Len(npcs) :
              /\ InSight(npcs, i)
              /\ Aim(npcs, i) # player.position
              /\ ~FreeAtTurn(i, Aim(npcs, i))}

\* C29: an Orc within 5.0 of the player whose aimed tile is out of bounds,
\* unwalkable or held by another NPC does nothing in its turn: it stays where it
\* is, with no random step instead, and it leaves the player, the items of the
\* world and the log alone, so that a pass in which no merchant takes part and
\* no orc attacks changes none of them.
C29_BarredOrcWaits ==
    [][ last'.op = "process_npc_actions" =>
          /\ \A i \in Barred : npcs'[i] = npcs[i]
          /\ (/\ Barred # {}
              /\ Attackers = {}
              /\ \A i \in 1..Len(npcs) : npcs[i].npc_type = "Orc") =>
                  /\ player' = player
                  /\ world' = world
                  /\ log_messages' = log_messages ]_vars

\* an orc in sight has waited behind another that held the tile it aimed at and
\* has since stepped off it; nobody was hurt and nothing was logged
C29_Witness ==
    /\ last.op = "process_npc_actions"
    /\ player.health = DefaultHealth
    /\ log_messages = WelcomeLog
    /\ \E i, j \in 1..Len(npcs) :
          /\ i < j
          /\ InSight(last.npcs_before, i)
          /\ Aim(last.npcs_before, i) # player.position
          /\ Aim(last.npcs_before, i) = last.npcs_before[j].position
          /\ npcs[i] = last.npcs_before[i]
          /\ npcs[j].position # last.npcs_before[j].position

\* the orcs farther than 5.0 from the player
Far == {i \in 1..Len(npcs) : npcs[i].npc_type = "Orc" /\ ~InSight(npcs, i)}

\* C30: an Orc farther than 5.0 from the player walks at random, two attempts
\* at a cardinal step, and changes nothing but its own position: it stays or
\* moves one cardinal step, and it leaves the items of the world, the player
\* and the log alone, so that a pass in which no merchant takes part and no orc
\* attacks changes none of them.
C30_FarOrcOnlyMoves ==
    [][ last'.op = "process_npc_actions" =>
          /\ \A i \in Far :
                /\ npcs'[i] = [npcs[i] EXCEPT !.position = npcs'[i].position]
                /\ \/ npcs'[i].position = npcs[i].position
                   \/ <<npcs'[i].position[1] - npcs[i].position[1],
                         npcs'[i].position[2] - npcs[i].position[2]>> \in Cardinal
          /\ (/\ Far # {}
              /\ Attackers = {}
              /\ \A i \in 1..Len(npcs) : npcs[i].npc_type = "Orc") =>
                  /\ world'.items = world.items
                  /\ player' = player
                  /\ log_messages' = log_messages ]_vars

\* an orc out of sight has taken a cardinal step in a pass of orcs only, and the
\* player and the log are as the game began
C30_Witness ==
    /\ last.op = "process_npc_actions"
    /\ player = [Player_default EXCEPT !.position = player.position]
    /\ log_messages = WelcomeLog
    /\ \A i \in 1..Len(npcs) : npcs[i].npc_type = "Orc"
    /\ \E i \in 1..Len(npcs) :
          /\ ~InSight(last.npcs_before, i)
          /\ <<npcs[i].position[1] - last.npcs_before[i].position[1],
               npcs[i].position[2] - last.npcs_before[i].position[2]>> \in Cardinal

\* the NPCs with no behaviour of their own
Inert == {"Goblin", "Skeleton", "Guard"}

\* C31: perform_action on a Goblin, a Skeleton or a Guard does nothing, in every
\* state: its one outcome is the NPC, the world and the player as they were and
\* no message; and after a pass every such NPC is as it was before the pass.
C31_InertNpcs ==
    /\ \A i \in 1..Len(npcs) :
          npcs[i].npc_type \in Inert =>
              perform_action(npcs[i], world, player, RemoveAt(npcs, i))
                  = {Outcome(npcs[i], world, player, << >>)}
    /\ last.op = "process_npc_actions" =>
          /\ Len(npcs) = Len(last.npcs_before)
          /\ \A i \in 1..Len(npcs) :
                last.npcs_before[i].npc_type \in Inert =>
                    npcs[i] = last.npcs_before[i]

\* a pass has been taken with a goblin, a skeleton and a guard in the cast, and
\* another NPC has moved in it
C31_Witness ==
    /\ last.op = "process_npc_actions"
    /\ \A t \in Inert : \E i \in 1..Len(npcs) : npcs[i].npc_type = t
    /\ npcs # last.npcs_before

\* what one turn of self may leave behind: self elsewhere, other items in the
\* world, and the player with less health if self is an orc striking
TurnKeepsFrame(self, w, p, o) ==
    /\ o.npc = [self EXCEPT !.position = o.npc.position]
    /\ o.world = [w EXCEPT !.items = o.world.items]
    /\ o.player = [p EXCEPT !.health = o.player.health]
    /\ o.player.health # p.health =>
          /\ self.npc_type = "Orc"
          /\ o.npc = self
          /\ \E d \in 5..20 :
                o.msgs = << "The orc " \o self.name \o AttackText[d] >>

\* C32: the turn of an NPC changes only its own position and the items of the
\* world: the rest of the NPC, the tiles, the size, and the player's position
\* and inventory are as before, and the player's health changes only by the
\* blow of an orc, in every state a pass can start from; so a pass leaves every
\* NPC its type and name and the grid as it was, and without an orc aiming at
\* the player leaves the player untouched.
C32_TurnFrame ==
    /\ [](steps < MaxSteps =>
             \A i \in 1..Len(npcs) :
                \E others \in {RemoveAt(npcs, i)} :
                   \A o \in perform_action(npcs[i], world, player, others) :
                      TurnKeepsFrame(npcs[i], world, player, o))
    /\ [][ last'.op = "process_npc_actions" =>
             /\ Len(npcs') = Len(npcs)
             /\ \A i \in 1..Len(npcs) :
                   npcs'[i] = [npcs[i] EXCEPT !.position = npcs'[i].position]
             /\ world' = [world EXCEPT !.items = world'.items]
             /\ player' = [player EXCEPT !.health = player'.health]
             /\ Attackers = {} => player' = player ]_vars

\* after a pass the merchant has moved and the world holds different items, next
\* to a player the orc has struck
C32_Witness ==
    /\ last.op = "process_npc_actions"
    /\ player.health < DefaultHealth
    /\ \E i \in 1..Len(npcs) :
          /\ npcs[i].npc_type = "Merchant"
          /\ npcs[i].position # last.npcs_before[i].position
          /\ \E k \in 1..Len(world.items) :
                world.items[k].position = npcs[i].position

\* the tiles the player and the NPCs stand on
Stands == {player.position} \cup {npcs[i].position : i \in 1..Len(npcs)}

\* C33: after the setup of a Survival game the cast is exactly five orcs, each
\* on a walkable tile inside the world, and the player and the five orcs stand
\* on six different tiles, whatever the draws were.
C33_FiveOrcsApart ==
    (condition.kind = "Survival" /\ last.op = "new") =>
        /\ Cardinality({i \in 1..Len(npcs) : npcs[i].npc_type = "Orc"}) = Len(orc_names)
        /\ Len(npcs) = Len(orc_names)
        /\ Cardinality(Stands) = Len(orc_names) + 1
        /\ \A pos \in Stands : Enterable(pos)

\* every tile setup_world can place on is walkable in the world of
\* GameWorld::default
SetupIsWalkable ==
    \A pos \in TreasureHuntPositions \cup CollectionPositions \cup SurvivalPositions :
        /\ is_valid_position(GameWorld_default, pos[1], pos[2])
        /\ is_walkable(GameWorld_default, pos[1], pos[2])

\* C34: in every reachable state of every mode the player and every NPC stand
\* in bounds on a walkable tile: setup_world places them so in the default
\* world, and no move of the player and no pass of the NPCs, diagonal steps of
\* the orcs included, takes them off such tiles.
C34_StandOnWalkable ==
    /\ SetupIsWalkable
    /\ \A pos \in Stands :
          /\ pos[1] \in 0..(world.size[1] - 1)
          /\ pos[2] \in 0..(world.size[2] - 1)
          /\ world.tiles[pos[1]][pos[2]] \in {"Floor", "Door", "Empty"}

\* an orc has stepped diagonally towards the player in a pass
C34_Witness ==
    /\ last.op = "process_npc_actions"
    /\ \E i \in 1..Len(npcs) :
          /\ npcs[i].npc_type = "Orc"
          /\ npcs[i].position[1] # last.npcs_before[i].position[1]
          /\ npcs[i].position[2] # last.npcs_before[i].position[2]

\* C35: Lost is absorbing.  No operation (a move, a collision with an NPC, a
\* pickup, the use of an item, a pass of the NPCs) raises the player's health;
\* so once it is 0 it stays 0, and check_status answers Lost in that state and
\* in every later one, in every mode.
C35_LostIsAbsorbing ==
    [][ /\ player'.health <= player.health
        /\ player.health = 0 =>
              /\ check_game_status(condition, GS) = "Lost"
              /\ player'.health = 0
              /\ check_game_status(condition',
                                   [player |-> player', world |-> world',
                                    npcs |-> npcs', log_messages |-> log_messages'])
                    = "Lost" ]_vars

\* the dead player of a Survival game has been struck again by the orcs around
C35_Witness ==
    /\ condition.kind = "Survival"
    /\ last.op = "process_npc_actions"
    /\ player.health = 0
    /\ Len(log_messages) > Len(WelcomeLog) + Len(SurvivalFall)
    /\ check_game_status(condition, GS) = "Lost"

\* the step is a call of one of the three operations of the player
IsResolverCall == last'.op \in {"try_move_player", "try_pickup_item", "use_item"}

\* C36: every call of try_move_player, try_pickup_item and use_item, whatever
\* branch it takes, appends exactly one entry to the log: the log after the
\* call is the log before it with one message pushed, the oldest entry making
\* room once the log holds 50; so in a Survival game its length grows by one
\* with every call until it is 50.
C36_OneEntryPerCall ==
    [][ IsResolverCall =>
          /\ log_messages' # << >>
          /\ Logged(log_messages, log_messages', LastOf(log_messages'))
          /\ Len(log_messages') =
                IF Len(log_messages) < MaxLogMessages
                THEN Len(log_messages) + 1 ELSE MaxLogMessages ]_vars

\* in a new Survival game the player has run into an orc, and the log holds
\* one entry more than the welcome
C36_Witness ==
    /\ condition.kind = "Survival"
    /\ last.op = "try_move_player"
    /\ last.hit = "Orc"
    /\ player.health = DefaultHealth - MaxOrcDamage
    /\ Len(log_messages) = Len(WelcomeLog) + 1

\* C37: in every reachable state no two WorldItems lie on one tile, whatever
\* the skeleton, the keys, the merchant and the pickups have done; so that one
\* pickup empties the player's tile.
C37_NoStackedItems ==
    /\ \A j, k \in 1..Len(world.items) :
          j # k => world.items[j].position # world.items[k].position
    /\ last.op = "try_pickup_item" =>
          \A k \in 1..Len(world.items) : world.items[k].position # player.position

\* C38: whenever the dialog state is NoDialog a game has been started: from
\* the selection of the game type no keys and no clicks lead to NoDialog while
\* game_state is None.
C38_NoDialogMeansGame ==
    dialog_state = "NoDialog" => App.game_state # << >>

====
